---- MODULE Spec2Model ----
(***************************************************************************)
(* Memoizing decorators of the exercise collection:                        *)
(*   - CacheDecorator          (src/src/exercises/decorators_e005.py)      *)
(*   - DecoratorChain.with_caching (src/src/exercises/decorators_e010.py)  *)
(* and the retrying and hook-running decorators:                           *)
(*   - DataPipelineStep, DecoratorWithHooks (decorators_e010.py)           *)
(*   - RetryDecorator          (src/src/exercises/decorators_e006.py)      *)
(* and the domain classes of the exercises:                                *)
(*   - Bank and its accounts   (src/src/exercises/banking_system.py)       *)
(*   - Library                 (src/src/exercises/library_management.py)   *)
(*   - Course, Student         (src/src/exercises/eplatform.py)            *)
(*   - SecureMessenger (securemessenger_class_and_functions.py)            *)
(*   - DatabaseConnection      (src/src/exercises/singleton_pattern.py)    *)
(*   - BankAccount             (src/src/exercises/bank_account.py)         *)
(* A Python dict is modelled as the sequence of its entries in insertion   *)
(* order; a Python value as a record [t, v] (type tag, payload).           *)
(***************************************************************************)
EXTENDS Integers, Sequences, FiniteSets, TLC

\* ------------------------------------------------------------------ bounds
MaxCap == 2
MaxCalls == 3
MaxFibArg == 3

\* ---------------------------------------------------------- Python values
PyInt(n) == [t |-> "int", v |-> n]
\* the string "x" repeated n times
PyStr(n) == [t |-> "str", v |-> n]
PyNone == [t |-> "none", v |-> 0]
\* the float n.0
PyFloat(n) == [t |-> "float", v |-> n]

\* x == y in Python: an int and a float of the same value are equal (and
\* hash alike)
PyEq(x, y) ==
  /\ x.v = y.v
  /\ x.t = y.t \/ {x.t, y.t} \subseteq {"int", "float"}

\* variant: keys are told apart by their parameter names only
KeyEq_NamesOnly(k1, k2) ==
  /\ Len(k1) = Len(k2)
  /\ \A i \in 1..Len(k1) : k1[i][1] = k2[i][1]

\* equality of two cache keys, tuples of (name, value) pairs
KeyEq(k1, k2) ==
  /\ Len(k1) = Len(k2)
  /\ \A i \in 1..Len(k1) : k1[i][1] = k2[i][1] /\ PyEq(k1[i][2], k2[i][2])

\* ------------------------------------------------------ wrapped functions
\* declared parameter names, in declaration order
Params(f) ==
  IF f = "fibonacci" THEN <<"n">>
  ELSE IF f \in {"square", "flaky_operation", "again"} THEN <<"x">>
  ELSE <<"a", "b">>

\* declared defaults: add(a, b=10); the one-parameter functions have none
Defaults(f) ==
  IF f = "add" THEN [p \in {"b"} |-> PyInt(10)] ELSE <<>>

\* values the model passes as arguments
ArgVals(f) ==
  IF f = "fibonacci"
    THEN {PyInt(n) : n \in 0..MaxFibArg} \cup {PyStr(1)}
  ELSE IF f = "square" THEN {PyInt(2), PyInt(3), PyInt(4), PyFloat(2)}
  ELSE IF f = "flaky_operation" THEN {PyInt(1), PyInt(2)}
  ELSE IF f = "again" THEN {PyInt(1), PyInt(2), PyInt(3)}
  ELSE {PyInt(5), PyInt(10), PyStr(1)}

\* keyword names the model uses: the declared ones and one undeclared
KwNames(f) == {Params(f)[i] : i \in 1..Len(Params(f))} \cup {"z"}

\* call syntaxes: positional tuple plus keyword mapping, at most one
\* argument more than the function declares
CallInputs(f) ==
  LET n == Len(Params(f))
      Pos == UNION {[1..k -> ArgVals(f)] : k \in 0..(n + 1)}
      Kw == UNION {[S -> ArgVals(f)] : S \in SUBSET KwNames(f)}
  IN {[args |-> a, kwargs |-> k] : a \in Pos, k \in Kw}

FibInputs == {c \in CallInputs("fibonacci") :
                Len(c.args) + Cardinality(DOMAIN c.kwargs) <= 2}
AddInputs == {c \in CallInputs("add") :
                Len(c.args) + Cardinality(DOMAIN c.kwargs) <= 3}
\* square(x) and flaky_operation(x): one positional argument, or none
OneArgInputs(f) ==
  {[args |-> a, kwargs |-> <<>>] : a \in [1..1 -> ArgVals(f)] \cup {<<>>}}
InputsOf(f) ==
  IF f = "fibonacci" THEN FibInputs
  ELSE IF f = "add" THEN AddInputs
  ELSE OneArgInputs(f)

\* ------------------------------------------------------------ key deriver
\* variant: a keyword for a parameter already filled positionally is let
\* through
Bindable_DuplicateAllowed(f, args, kwargs) ==
  LET ps == Params(f)
      rest == {ps[i] : i \in (Len(args) + 1)..Len(ps)}
  IN /\ Len(args) <= Len(ps)
     /\ DOMAIN kwargs \subseteq {ps[i] : i \in 1..Len(ps)}
     /\ \A p \in rest : p \in DOMAIN kwargs \/ p \in DOMAIN Defaults(f)

\* inspect.Signature.bind succeeds: not too many positionals, every keyword
\* names a parameter not already filled positionally, and every parameter
\* left over has a keyword or a default
Bindable(f, args, kwargs) ==
  LET ps == Params(f)
      rest == {ps[i] : i \in (Len(args) + 1)..Len(ps)}
  IN /\ Len(args) <= Len(ps)
     /\ DOMAIN kwargs \subseteq rest
     /\ \A p \in rest : p \in DOMAIN kwargs \/ p \in DOMAIN Defaults(f)

\* Python's call semantics: the value parameter i of f receives from the
\* call f(*args, **kwargs)
EffectiveValue(f, args, kwargs, i) ==
  LET p == Params(f)[i]
  IN IF i <= Len(args) THEN args[i]
     ELSE IF p \in DOMAIN kwargs THEN kwargs[p]
     ELSE Defaults(f)[p]

EffectiveArgs(f, args, kwargs) ==
  [i \in 1..Len(Params(f)) |-> EffectiveValue(f, args, kwargs, i)]

\* sig.bind(*args, **kwargs).arguments: the supplied parameters only, as
\* (name, value) in declaration order
BindArguments(f, args, kwargs) ==
  LET ps == Params(f)
      supplied == SelectSeq(ps, LAMBDA p : p \in DOMAIN kwargs)
  IN [i \in 1..Len(args) |-> <<ps[i], args[i]>>]
     \o [j \in 1..Len(supplied) |-> <<supplied[j], kwargs[supplied[j]]>>]

\* variant: defaults are not filled in
ApplyDefaults_Skipped(f, arguments) == arguments

\* bound_args.apply_defaults(): every declared parameter in declaration
\* order, the missing ones with their default
ApplyDefaults(f, arguments) ==
  LET ps == Params(f)
      given(p) == \E j \in 1..Len(arguments) : arguments[j][1] = p
      value(p) == arguments[CHOOSE j \in 1..Len(arguments) : arguments[j][1] = p][2]
  IN [i \in 1..Len(ps) |->
        <<ps[i], IF given(ps[i]) THEN value(ps[i]) ELSE Defaults(f)[ps[i]]>>]

\* _make_cache_key: tuple of the (name, value) items after apply_defaults
MakeCacheKey(f, args, kwargs) ==
  ApplyDefaults(f, BindArguments(f, args, kwargs))

\* ------------------------------------------------------------- dict model
DictKeys(d) == {d[i].k : i \in 1..Len(d)}
\* keys are looked up by equality (==), not identity
DictHas(d, key) == \E i \in 1..Len(d) : KeyEq(d[i].k, key)
\* variant: the lookup answers with the oldest entry's value
DictGet_First(d, key) == d[1].v

DictGet(d, key) == LET i == CHOOSE j \in 1..Len(d) : KeyEq(d[j].k, key) IN d[i].v
\* variant: the assignment is lost
DictSet_Lost(d, key, val) == d

\* d[key] = val: overwrite in place, or append as newest
DictSet(d, key, val) ==
  IF DictHas(d, key)
    THEN [i \in 1..Len(d) |->
            IF KeyEq(d[i].k, key) THEN [k |-> d[i].k, v |-> val] ELSE d[i]]
    ELSE Append(d, [k |-> key, v |-> val])
\* variant: pops the newest entry
DictPopFirst_Newest(d) == SubSeq(d, 1, Len(d) - 1)

\* d.pop(next(iter(d))) on a non-empty dict
DictPopFirst(d) == Tail(d)

\* ------------------------------------------------------------------ state
VARIABLES
  target,               \* which wrapper was constructed
  func,                 \* the wrapped function
  max_cache_size,       \* CacheDecorator.max_cache_size
  cache,                \* CacheDecorator.cache
  cache_hits_miss,      \* CacheDecorator.cache_hits_miss
  stack,                \* frames of the wrapped function in progress
  chain_max_cache_size, \* DecoratorChain.max_cache_size
  chain_cache,          \* DecoratorChain.cache
  chain_cache_hit_miss, \* DecoratorChain.cache_hit_miss
  calls,                \* wrapper calls begun since construction / clear
  keyed,                \* of those, the ones whose key was derived
  total_calls,          \* top-level calls made (bounds the run)
  cur,                  \* the top-level call in progress
  last,                 \* the operation completed most recently
  fifo,                 \* keys now stored, in order of their insertion
  ins_log,              \* keys inserted since the store was last empty
  script,               \* the caller's calls when fixed in advance, else <<>>
  thr,                  \* concurrent callers of one CacheDecorator
  step,                 \* a DataPipelineStep and the call it is serving
  retry,                \* a RetryDecorator and the call it is serving
  hooks,                \* a DecoratorWithHooks and its decorated function
  inst                  \* the instances of an exercise's domain classes


\* ---------------------------------------------------- wrapped computation
\* A frame of the wrapped function: the key its result will be stored
\* under, the argument values it runs with, the number of recursive calls
\* it has completed, and their running sum.
NewFrame(key, vals) == [key |-> key, vals |-> vals, done |-> 0, acc |-> PyInt(0)]

\* fibonacci: `n <= 1` on a str raises TypeError; add: `a + b` on mixed
\* str/int operands raises TypeError; square: `x * x` on a str raises
\* TypeError
BodyRaises(f, fr) ==
  IF f = "add"
    THEN fr.vals[1].t # fr.vals[2].t
    ELSE fr.vals[1].t = "str"

\* fibonacci(n) with n > 1 calls fibonacci(n - 1) and then fibonacci(n - 2);
\* again(x), a function given to the decorator that calls the wrapper once
\* more with its own argument unless it is already running
\* (`if busy: return x` ... `return x + again(x)`)
BodyCalls(f, fr) ==
  \/ /\ f = "fibonacci"
     /\ fr.vals[1].t = "int"
     /\ fr.vals[1].v > 1
     /\ fr.done < 2
  \/ /\ f = "again"
     /\ Len(stack) = 1
     /\ fr.done < 1

BodyNextArg(f, fr) ==
  IF f = "again" THEN fr.vals[1] ELSE PyInt(fr.vals[1].v - 1 - fr.done)

BodyReturns(f, fr) == ~BodyRaises(f, fr) /\ ~BodyCalls(f, fr)

BodyResult(f, fr) ==
  IF f = "fibonacci"
    THEN IF fr.vals[1].v <= 1 THEN fr.vals[1] ELSE fr.acc
  ELSE IF f = "square"
    THEN [t |-> fr.vals[1].t, v |-> fr.vals[1].v * fr.vals[1].v]
  ELSE IF f = "flaky_operation"
    THEN [t |-> fr.vals[1].t, v |-> fr.vals[1].v * 2]
  ELSE IF f = "again"
    THEN PyInt(fr.vals[1].v + fr.acc.v)
  ELSE [t |-> fr.vals[1].t, v |-> fr.vals[1].v + fr.vals[2].v]

\* the caller's frame after a recursive call returned val
Resume(fr, val) == [fr EXCEPT !.done = @ + 1, !.acc = PyInt(@.v + val.v)]

\* ------------------------------------------------------ bounded store
\* `if len(cache) >= max_cache_size: cache.pop(next(iter(cache)))`
\* next(iter({})) raises StopIteration
EvictRaises(d, max) == Len(d) >= max /\ Len(d) = 0

\* variant: evicts only once the capacity is exceeded
Evict_Late(d, max) == IF Len(d) > max THEN DictPopFirst(d) ELSE d

Evict(d, max) == IF Len(d) >= max THEN DictPopFirst(d) ELSE d

\* variant: the result goes in as the oldest entry
StoreResult_Front(d, max, key, val) ==
  <<[k |-> key, v |-> val]>> \o Evict(d, max)

\* eviction check followed by `cache[cache_key] = result`
StoreResult(d, max, key, val) == DictSet(Evict(d, max), key, val)

\* variant: a hit makes the entry the newest
HitStore_Refresh(d, key) ==
  SelectSeq(d, LAMBDA e : e.k # key) \o SelectSeq(d, LAMBDA e : e.k = key)

\* the hit branch only reads `cache[cache_key]`: the dict is left as it is
HitStore(d, key) == d

ZeroCounters == [c \in {"Cache Hits", "Cache Misses"} |-> 0]
\* variant: the hit is not counted
RecordHit_Lost(c) == c

RecordHit(c) == [c EXCEPT !["Cache Hits"] = @ + 1]
RecordMiss(c) == [c EXCEPT !["Cache Misses"] = @ + 1]

vars == <<target, func, max_cache_size, cache, cache_hits_miss, stack,
          chain_max_cache_size, chain_cache, chain_cache_hit_miss,
          calls, keyed, total_calls, cur, last, fifo, ins_log, script,
          thr, step, retry, hooks, inst>>

\* value of the variable of an object that was not constructed
Absent == [absent |-> TRUE]

Idle == [key |-> <<>>, invoked |-> 0, entry_cache |-> <<>>, evicted |-> {}]

NoOp == [n |-> 0, op |-> "none", key |-> <<>>, outcome |-> "none",
         result |-> PyNone, exc |-> "none", invoked |-> 0, evicted |-> {},
         prev_outcome |-> "none", prev_same |-> FALSE,
         evicted_last_hit |-> FALSE, cleared |-> {}]

\* the record of a completed top-level call
Completed(key, outcome, result, exc, invoked, evicted) ==
  [n |-> total_calls + (IF cur = Idle THEN 1 ELSE 0),
   op |-> "call", key |-> key, outcome |-> outcome,
   result |-> result, exc |-> exc, invoked |-> invoked, evicted |-> evicted,
   prev_outcome |-> IF last.op = "clear" THEN "clear" ELSE last.outcome,
   prev_same |-> IF last.op = "clear" THEN key \in last.cleared
                 ELSE last.op = "call" /\ last.key = key,
   evicted_last_hit |-> last.outcome = "hit" /\ last.key \in evicted,
   cleared |-> {}]

\* keys of d in dict order
KeySeq(d) == [i \in 1..Len(d) |-> d[i].k]

\* the insertion-order bookkeeping after the store changed from d to e
FifoAfter(q, d, e) ==
  LET kept == SelectSeq(q, LAMBDA k : DictHas(e, k))
      new == SelectSeq(KeySeq(e), LAMBDA k : ~DictHas(d, k))
  IN kept \o new

LogAfter(log, max, d, e) ==
  LET new == SelectSeq(KeySeq(e), LAMBDA k : ~DictHas(d, k))
  IN IF Len(log) > max + 1 THEN log ELSE log \o new

\* default of the max_cache_size / max_size parameters
DefaultMaxCacheSize == 128

\* ------------------------------------------------------------ construction
\* CacheDecorator(func, max_cache_size) or
\* DecoratorChain(add).with_caching(max_size).build()
Init ==
  /\ target \in {"CacheDecorator", "DecoratorChain"}
  /\ func \in {"fibonacci", "add"}
  /\ target = "DecoratorChain" => func = "add"
  /\ max_cache_size \in (-1..MaxCap) \cup {DefaultMaxCacheSize}
  /\ chain_max_cache_size \in (0..MaxCap) \cup {DefaultMaxCacheSize}
  /\ target = "CacheDecorator" => chain_max_cache_size = DefaultMaxCacheSize
  /\ target = "DecoratorChain" => max_cache_size = DefaultMaxCacheSize
  /\ cache = <<>>
  /\ cache_hits_miss = ZeroCounters
  /\ stack = <<>>
  /\ chain_cache = <<>>
  /\ chain_cache_hit_miss = ZeroCounters
  /\ calls = 0
  /\ keyed = 0
  /\ total_calls = 0
  /\ cur = Idle
  /\ last = NoOp
  /\ fifo = <<>>
  /\ ins_log = <<>>
  /\ script = <<>>
  /\ thr = Absent
  /\ step = Absent
  /\ retry = Absent
  /\ hooks = Absent
  /\ inst = Absent

ChainVars == <<chain_max_cache_size, chain_cache, chain_cache_hit_miss>>
Config == <<target, func, max_cache_size, chain_max_cache_size, script,
            thr, step, retry, hooks, inst>>

\* the call syntaxes the caller may use next
CallChoices ==
  IF script = <<>>
    THEN IF total_calls < MaxCalls THEN InputsOf(func) ELSE {}
    ELSE IF total_calls < Len(script) THEN {script[total_calls + 1]} ELSE {}

\* ------------------------------------------------- CacheDecorator.__call__
\* A call from outside: key derivation, lookup, hit or the start of a miss.
Call ==
  /\ target = "CacheDecorator"
  /\ stack = <<>>
  /\ \E c \in CallChoices :
       /\ total_calls' = total_calls + 1
       /\ calls' = calls + 1
       /\ IF ~Bindable(func, c.args, c.kwargs)
            THEN \* sig.bind raises TypeError before anything else happens
                 /\ last' = Completed(<<>>, "raise", PyNone, "TypeError", 0, {})
                 /\ UNCHANGED <<cache, cache_hits_miss, stack, cur, keyed>>
            ELSE LET key == MakeCacheKey(func, c.args, c.kwargs) IN
                 /\ keyed' = keyed + 1
                 /\ IF DictHas(cache, key)
                      THEN /\ cache_hits_miss' = RecordHit(cache_hits_miss)
                           /\ last' = Completed(key, "hit", DictGet(cache, key),
                                                "none", 0, {})
                           /\ cache' = HitStore(cache, key)
                           /\ UNCHANGED <<stack, cur>>
                      ELSE /\ cache_hits_miss' = RecordMiss(cache_hits_miss)
                           /\ cache' = cache
                           /\ stack' = <<NewFrame(key, EffectiveArgs(func, c.args, c.kwargs))>>
                           /\ cur' = [key |-> key, invoked |-> 1,
                                      entry_cache |-> cache, evicted |-> {}]
                           /\ UNCHANGED last
  /\ UNCHANGED <<Config, ChainVars, fifo, ins_log>>

\* The running function calls the wrapper again (fibonacci's recursion).
Reenter ==
  /\ target = "CacheDecorator"
  /\ stack # <<>>
  /\ BodyCalls(func, stack[Len(stack)])
  /\ LET top == stack[Len(stack)]
         key == MakeCacheKey(func, <<BodyNextArg(func, top)>>, <<>>)
     IN /\ calls' = calls + 1
        /\ keyed' = keyed + 1
        /\ IF DictHas(cache, key)
             THEN /\ cache_hits_miss' = RecordHit(cache_hits_miss)
                  /\ stack' = [stack EXCEPT ![Len(stack)] =
                                 Resume(top, DictGet(cache, key))]
                  /\ cache' = HitStore(cache, key)
                  /\ UNCHANGED cur
             ELSE /\ cache_hits_miss' = RecordMiss(cache_hits_miss)
                  /\ stack' = Append(stack, NewFrame(key, <<BodyNextArg(func, top)>>))
                  /\ cache' = cache
                  /\ cur' = [cur EXCEPT !.invoked = @ + 1]
  /\ UNCHANGED <<Config, ChainVars, total_calls, last, fifo, ins_log>>

\* The function returns: the wrapper evicts if full, stores and returns.
Return ==
  /\ target = "CacheDecorator"
  /\ stack # <<>>
  /\ BodyReturns(func, stack[Len(stack)])
  /\ LET top == stack[Len(stack)]
         val == BodyResult(func, top)
         below == SubSeq(stack, 1, Len(stack) - 1)
     IN IF EvictRaises(cache, max_cache_size)
          THEN \* StopIteration leaves through every frame
               /\ stack' = <<>>
               /\ cur' = Idle
               /\ last' = Completed(cur.key, "raise", PyNone, "StopIteration",
                                    cur.invoked, cur.evicted)
               /\ UNCHANGED <<cache, fifo, ins_log>>
          ELSE LET new == StoreResult(cache, max_cache_size, top.key, val)
                   gone == cur.evicted \cup (DictKeys(cache) \ DictKeys(new))
               IN /\ cache' = new
                  /\ fifo' = FifoAfter(fifo, cache, new)
                  /\ ins_log' = LogAfter(ins_log, max_cache_size, cache, new)
                  /\ IF below = <<>>
                       THEN /\ stack' = <<>>
                            /\ cur' = Idle
                            /\ last' = Completed(cur.key, "miss", val, "none",
                                                 cur.invoked, gone)
                       ELSE /\ stack' = [below EXCEPT ![Len(below)] =
                                           Resume(@, val)]
                            /\ cur' = [cur EXCEPT !.evicted = gone]
                            /\ UNCHANGED last
  /\ UNCHANGED <<Config, cache_hits_miss, ChainVars, calls, keyed, total_calls>>

\* variant: the eviction check runs although the function raised
Raise_Evicting ==
  /\ target = "CacheDecorator"
  /\ stack # <<>>
  /\ BodyRaises(func, stack[Len(stack)])
  /\ stack' = <<>>
  /\ cur' = Idle
  /\ cache' = IF EvictRaises(cache, max_cache_size)
                THEN cache
                ELSE Evict(cache, max_cache_size)
  /\ fifo' = FifoAfter(fifo, cache, cache')
  /\ last' = Completed(cur.key, "raise", PyNone, "TypeError",
                       cur.invoked, cur.evicted)
  /\ UNCHANGED <<Config, cache_hits_miss, ChainVars, calls, keyed,
                 total_calls, ins_log>>

\* The function raises: nothing catches it on the way out.
Raise ==
  /\ target = "CacheDecorator"
  /\ stack # <<>>
  /\ BodyRaises(func, stack[Len(stack)])
  /\ stack' = <<>>
  /\ cur' = Idle
  /\ last' = Completed(cur.key, "raise", PyNone, "TypeError",
                       cur.invoked, cur.evicted)
  /\ UNCHANGED <<Config, cache, cache_hits_miss, ChainVars, calls, keyed,
                 total_calls, fifo, ins_log>>

\* variant: the counters are reset, the store is kept
ClearCache_CountersOnly ==
  /\ target = "CacheDecorator"
  /\ stack = <<>>
  /\ cache_hits_miss' = [c \in DOMAIN cache_hits_miss |-> 0]
  /\ calls' = 0
  /\ keyed' = 0
  /\ last' = [NoOp EXCEPT !.n = total_calls, !.op = "clear",
                          !.cleared = DictKeys(cache)]
  /\ UNCHANGED <<Config, cache, stack, ChainVars, total_calls, cur, fifo, ins_log>>

\* CacheDecorator.clear_cache
ClearCache ==
  /\ target = "CacheDecorator"
  /\ stack = <<>>
  /\ cache' = <<>>
  /\ cache_hits_miss' = [c \in DOMAIN cache_hits_miss |-> 0]
  /\ calls' = 0
  /\ keyed' = 0
  /\ fifo' = <<>>
  /\ ins_log' = <<>>
  /\ last' = [NoOp EXCEPT !.n = total_calls, !.op = "clear",
                          !.cleared = DictKeys(cache)]
  /\ UNCHANGED <<Config, stack, ChainVars, total_calls, cur>>

\* CacheDecorator.get_cache_stats; hit_rate in tenths of a percent,
\* rounded to nearest with ties to even as "{:.1f}" does
RoundHalfEven(num, den) ==
  LET q == num \div den
      r == num % den
  IN IF 2 * r > den \/ (2 * r = den /\ q % 2 = 1) THEN q + 1 ELSE q

GetCacheStats ==
  LET total_requests == cache_hits_miss["Cache Hits"] + cache_hits_miss["Cache Misses"]
  IN [cache_size |-> Len(cache),
      max_cache_size |-> max_cache_size,
      cache_hits |-> cache_hits_miss["Cache Hits"],
      cache_misses |-> cache_hits_miss["Cache Misses"],
      total_requests |-> total_requests,
      hit_rate |-> IF total_requests > 0
                     THEN RoundHalfEven(cache_hits_miss["Cache Hits"] * 1000,
                                        total_requests)
                     ELSE 0]

\* ------------------------------- DecoratorChain.with_caching ... wrapper
\* One call of the built wrapper; the store sits in a `finally` block, so
\* it also runs when the function raised and `result` was never bound.
ChainCall ==
  /\ target = "DecoratorChain"
  /\ \E c \in CallChoices :
       /\ total_calls' = total_calls + 1
       /\ calls' = calls + 1
       /\ IF ~Bindable(func, c.args, c.kwargs)
            THEN /\ last' = Completed(<<>>, "raise", PyNone, "TypeError", 0, {})
                 /\ UNCHANGED <<chain_cache, chain_cache_hit_miss, keyed,
                                fifo, ins_log>>
            ELSE LET key == MakeCacheKey(func, c.args, c.kwargs)
                     fr == NewFrame(key, EffectiveArgs(func, c.args, c.kwargs))
                     kept == Evict(chain_cache, chain_max_cache_size)
                     gone == DictKeys(chain_cache) \ DictKeys(kept)
                     new == DictSet(kept, key, BodyResult(func, fr))
                 IN
                 /\ keyed' = keyed + 1
                 /\ IF DictHas(chain_cache, key)
                      THEN /\ chain_cache_hit_miss' = RecordHit(chain_cache_hit_miss)
                           /\ last' = Completed(key, "hit",
                                                DictGet(chain_cache, key),
                                                "none", 0, {})
                           /\ UNCHANGED <<chain_cache, fifo, ins_log>>
                      ELSE /\ chain_cache_hit_miss' = RecordMiss(chain_cache_hit_miss)
                           /\ IF EvictRaises(chain_cache, chain_max_cache_size)
                                THEN \* next(iter({})) in the finally block
                                     /\ last' = Completed(key, "raise", PyNone,
                                                          "StopIteration", 1, {})
                                     /\ UNCHANGED <<chain_cache, fifo, ins_log>>
                                ELSE IF BodyRaises(func, fr)
                                THEN \* evicted, then `result` is unbound
                                     /\ chain_cache' = kept
                                     /\ fifo' = FifoAfter(fifo, chain_cache, kept)
                                     /\ last' = Completed(key, "raise", PyNone,
                                                          "UnboundLocalError",
                                                          1, gone)
                                     /\ UNCHANGED ins_log
                                ELSE /\ chain_cache' = new
                                     /\ fifo' = FifoAfter(fifo, chain_cache, new)
                                     /\ ins_log' = LogAfter(ins_log,
                                                     chain_max_cache_size,
                                                     chain_cache, new)
                                     /\ last' = Completed(key, "miss",
                                                          BodyResult(func, fr),
                                                          "none", 1, gone)
  /\ UNCHANGED <<Config, cache, cache_hits_miss, stack, cur>>

Next == Call \/ Reenter \/ Return \/ Raise \/ ClearCache \/ ChainCall

Spec == Init /\ [][Next]_vars

\* ------------------------------------------- key derivation under a script
\* A CacheDecorator around add(a, b=10) driven by three calls fixed in
\* advance, each in any syntax that binds int arguments.
ScriptLen == 3

ScriptInputs ==
  {c \in AddInputs :
     /\ Bindable("add", c.args, c.kwargs)
     /\ \A i \in 1..Len(c.args) : c.args[i].t = "int"
     /\ \A p \in DOMAIN c.kwargs : c.kwargs[p].t = "int"}

KeyInit ==
  /\ target = "CacheDecorator"
  /\ func = "add"
  /\ max_cache_size \in {1, DefaultMaxCacheSize}
  /\ chain_max_cache_size = DefaultMaxCacheSize
  /\ cache = <<>>
  /\ cache_hits_miss = ZeroCounters
  /\ stack = <<>>
  /\ chain_cache = <<>>
  /\ chain_cache_hit_miss = ZeroCounters
  /\ calls = 0
  /\ keyed = 0
  /\ total_calls = 0
  /\ cur = Idle
  /\ last = NoOp
  /\ fifo = <<>>
  /\ ins_log = <<>>
  /\ script \in [1..ScriptLen -> ScriptInputs]
  /\ thr = Absent
  /\ step = Absent
  /\ retry = Absent
  /\ hooks = Absent
  /\ inst = Absent

KeyNext == Call \/ Return

KeySpec == KeyInit /\ [][KeyNext]_vars

\* ------------------------------------------------ square under a script
\* A CacheDecorator around square(x) = x * x driven by calls fixed in
\* advance, each with one positional number.
SquareLen == 5

SquareInputs ==
  {c \in OneArgInputs("square") : Bindable("square", c.args, c.kwargs)}

SquareInit ==
  /\ target = "CacheDecorator"
  /\ func = "square"
  /\ max_cache_size \in {1, 2, DefaultMaxCacheSize}
  /\ chain_max_cache_size = DefaultMaxCacheSize
  /\ cache = <<>>
  /\ cache_hits_miss = ZeroCounters
  /\ stack = <<>>
  /\ chain_cache = <<>>
  /\ chain_cache_hit_miss = ZeroCounters
  /\ calls = 0
  /\ keyed = 0
  /\ total_calls = 0
  /\ cur = Idle
  /\ last = NoOp
  /\ fifo = <<>>
  /\ ins_log = <<>>
  /\ script \in [1..SquareLen -> SquareInputs]
  /\ thr = Absent
  /\ step = Absent
  /\ retry = Absent
  /\ hooks = Absent
  /\ inst = Absent

SquareNext == Call \/ Return

SquareSpec == SquareInit /\ [][SquareNext]_vars

\* --------------------------------------------- binding under a script
\* A CacheDecorator around add(a, b=10) driven by calls fixed in advance,
\* in every syntax that passes 5 up to three times, positionally or by
\* keyword, those that do not bind included.
BindLen == 2

BindInputs ==
  {c \in AddInputs :
     /\ \A i \in 1..Len(c.args) : c.args[i] = PyInt(5)
     /\ \A p \in DOMAIN c.kwargs : c.kwargs[p] = PyInt(5)}

BindInit ==
  /\ target = "CacheDecorator"
  /\ func = "add"
  /\ max_cache_size \in {1, DefaultMaxCacheSize}
  /\ chain_max_cache_size = DefaultMaxCacheSize
  /\ cache = <<>>
  /\ cache_hits_miss = ZeroCounters
  /\ stack = <<>>
  /\ chain_cache = <<>>
  /\ chain_cache_hit_miss = ZeroCounters
  /\ calls = 0
  /\ keyed = 0
  /\ total_calls = 0
  /\ cur = Idle
  /\ last = NoOp
  /\ fifo = <<>>
  /\ ins_log = <<>>
  /\ script \in [1..BindLen -> BindInputs]
  /\ thr = Absent
  /\ step = Absent
  /\ retry = Absent
  /\ hooks = Absent
  /\ inst = Absent

BindNext == Call \/ Return

BindSpec == BindInit /\ [][BindNext]_vars

\* ------------------------------------- two threads calling one wrapper
\* Two threads call one CacheDecorator around square; a thread switch can
\* fall between any two statements of __call__, and inside `x += 1` and
\* `cache.pop(next(iter(cache)))`.
ThreadCalls == 2

Threads == {1, 2}
ThreadArgs == {PyInt(2), PyInt(3), PyInt(4)}

\* everything but the store, the counters and the threads
ThreadFrame == <<target, func, max_cache_size, ChainVars, stack, calls, keyed,
                 total_calls, cur, last, fifo, ins_log, script, step, retry,
                 hooks, inst>>

ThreadInit ==
  /\ target = "CacheDecorator"
  /\ func = "square"
  /\ max_cache_size \in 1..2
  /\ chain_max_cache_size = DefaultMaxCacheSize
  /\ cache = <<>>
  /\ cache_hits_miss = ZeroCounters
  /\ stack = <<>>
  /\ chain_cache = <<>>
  /\ chain_cache_hit_miss = ZeroCounters
  /\ calls = 0
  /\ keyed = 0
  /\ total_calls = 0
  /\ cur = Idle
  /\ last = NoOp
  /\ fifo = <<>>
  /\ ins_log = <<>>
  /\ script = <<>>
  /\ thr = [pc |-> [t \in Threads |-> "idle"],
            key |-> [t \in Threads |-> <<>>],
            arg |-> [t \in Threads |-> PyNone],
            result |-> [t \in Threads |-> PyNone],
            first |-> [t \in Threads |-> <<>>],
            loaded |-> [t \in Threads |-> 0],
            exc |-> [t \in Threads |-> "none"],
            n |-> [t \in Threads |-> 0],
            overlap |-> FALSE]
  /\ step = Absent
  /\ retry = Absent
  /\ hooks = Absent
  /\ inst = Absent

\* thread t moves to pc p
Goto(t, p) == [thr EXCEPT !.pc[t] = p]
\* thread t leaves __call__, returning or raising exc
Leave(t, exc) ==
  [thr EXCEPT !.pc[t] = "idle", !.exc[t] = exc, !.n[t] = @ + 1,
              !.key[t] = <<>>, !.arg[t] = PyNone, !.result[t] = PyNone,
              !.first[t] = <<>>, !.loaded[t] = 0]
\* another thread has passed the capacity check and not yet inserted
OtherPastCheck(t) ==
  \E u \in Threads \ {t} : thr.pc[u] \in {"iter", "pop", "set"}

\* line 92: the key is derived
T_Begin(t) ==
  /\ thr.pc[t] = "idle"
  /\ thr.n[t] < ThreadCalls
  /\ \E x \in ThreadArgs :
       thr' = [Goto(t, "lookup") EXCEPT
                 !.key[t] = MakeCacheKey(func, <<x>>, <<>>),
                 !.arg[t] = x, !.exc[t] = "none"]
  /\ UNCHANGED <<ThreadFrame, cache, cache_hits_miss>>

\* line 94: `if cache_key in self.cache`
T_Lookup(t) ==
  /\ thr.pc[t] = "lookup"
  /\ thr' = Goto(t, IF DictHas(cache, thr.key[t]) THEN "hit_load" ELSE "miss_load")
  /\ UNCHANGED <<ThreadFrame, cache, cache_hits_miss>>

\* lines 100 and 107, first half of `+= 1`: the counter is read
T_Load(t) ==
  /\ thr.pc[t] \in {"hit_load", "miss_load"}
  /\ thr' = [Goto(t, IF thr.pc[t] = "hit_load" THEN "hit_store" ELSE "miss_store")
               EXCEPT !.loaded[t] = IF thr.pc[t] = "hit_load"
                                      THEN cache_hits_miss["Cache Hits"]
                                      ELSE cache_hits_miss["Cache Misses"]]
  /\ UNCHANGED <<ThreadFrame, cache, cache_hits_miss>>

\* lines 100 and 107, second half of `+= 1`: the sum is written back
T_Store(t) ==
  /\ thr.pc[t] \in {"hit_store", "miss_store"}
  /\ cache_hits_miss' =
       [cache_hits_miss EXCEPT
          ![IF thr.pc[t] = "hit_store" THEN "Cache Hits" ELSE "Cache Misses"] =
            thr.loaded[t] + 1]
  /\ thr' = Goto(t, IF thr.pc[t] = "hit_store" THEN "hit_read" ELSE "invoke")
  /\ UNCHANGED <<ThreadFrame, cache>>

\* line 105: `return self.cache[cache_key]`, KeyError if it is gone
T_HitRead(t) ==
  /\ thr.pc[t] = "hit_read"
  /\ thr' = Leave(t, IF DictHas(cache, thr.key[t]) THEN "none" ELSE "KeyError")
  /\ UNCHANGED <<ThreadFrame, cache, cache_hits_miss>>

\* line 108: the function runs
T_Invoke(t) ==
  /\ thr.pc[t] = "invoke"
  /\ thr' = [Goto(t, "check") EXCEPT
               !.result[t] = BodyResult(func, NewFrame(thr.key[t], <<thr.arg[t]>>))]
  /\ UNCHANGED <<ThreadFrame, cache, cache_hits_miss>>

\* variant: the store is never found full
Full_Never(d, max) == FALSE

\* `len(self.cache) >= self.max_cache_size`
Full(d, max) == Len(d) >= max

\* line 109: the capacity check
T_Check(t) ==
  /\ thr.pc[t] = "check"
  /\ thr' = [Goto(t, IF Full(cache, max_cache_size) THEN "iter" ELSE "set")
               EXCEPT !.overlap = @ \/ OtherPastCheck(t)]
  /\ UNCHANGED <<ThreadFrame, cache, cache_hits_miss>>

\* line 110, `next(iter(self.cache))`: the first key, StopIteration if none
T_Iter(t) ==
  /\ thr.pc[t] = "iter"
  /\ thr' = IF cache = <<>>
              THEN Leave(t, "StopIteration")
              ELSE [Goto(t, "pop") EXCEPT !.first[t] = cache[1].k]
  /\ UNCHANGED <<ThreadFrame, cache, cache_hits_miss>>

\* line 110, `self.cache.pop(...)`: KeyError if the key is gone by now
T_Pop(t) ==
  /\ thr.pc[t] = "pop"
  /\ IF DictHas(cache, thr.first[t])
       THEN /\ cache' = SelectSeq(cache, LAMBDA e : ~KeyEq(e.k, thr.first[t]))
            /\ thr' = Goto(t, "set")
       ELSE /\ cache' = cache
            /\ thr' = Leave(t, "KeyError")
  /\ UNCHANGED <<ThreadFrame, cache_hits_miss>>

\* line 115: `self.cache[cache_key] = result`, then the return
T_Set(t) ==
  /\ thr.pc[t] = "set"
  /\ cache' = DictSet(cache, thr.key[t], thr.result[t])
  /\ thr' = Leave(t, "none")
  /\ UNCHANGED <<ThreadFrame, cache_hits_miss>>

ThreadStep(t) ==
  \/ T_Begin(t) \/ T_Lookup(t) \/ T_Load(t) \/ T_Store(t) \/ T_HitRead(t)
  \/ T_Invoke(t) \/ T_Check(t) \/ T_Iter(t) \/ T_Pop(t) \/ T_Set(t)

ThreadNext == \E t \in Threads : ThreadStep(t)

ThreadSpec == ThreadInit /\ [][ThreadNext]_vars

\* ------------------------------------------------------ DataPipelineStep
\* A DataPipelineStep around flaky_operation(x) = x * 2, a function that
\* on any attempt either returns or raises an exception derived from
\* Exception. metrics["total_time"] is wall-clock time and is left out.
MaxRetries == 3
StepCalls == 3

\* everything but the step
StepFrame == <<target, func, max_cache_size, ChainVars, cache, cache_hits_miss,
               stack, calls, keyed, total_calls, cur, last, fifo, ins_log,
               script, thr, retry, hooks, inst>>

StepNoCall == [outcome |-> "none", key |-> <<>>, result |-> PyNone,
               invoked |-> 0, fails |-> 0, reported |-> 0]

StepInit ==
  /\ target = "DataPipelineStep"
  /\ func = "flaky_operation"
  /\ max_cache_size = DefaultMaxCacheSize
  /\ chain_max_cache_size = DefaultMaxCacheSize
  /\ cache = <<>>
  /\ cache_hits_miss = ZeroCounters
  /\ stack = <<>>
  /\ chain_cache = <<>>
  /\ chain_cache_hit_miss = ZeroCounters
  /\ calls = 0
  /\ keyed = 0
  /\ total_calls = 0
  /\ cur = Idle
  /\ last = NoOp
  /\ fifo = <<>>
  /\ ins_log = <<>>
  /\ script = <<>>
  /\ thr = Absent
  /\ \E r \in 0..MaxRetries :
       step = [max_retries |-> r,
               metrics |-> [calls |-> 0, successes |-> 0, failures |-> 0,
                            cached_hits |-> 0],
               cache |-> <<>>,
               pc |-> "idle", key |-> <<>>, arg |-> PyNone, attempts |-> 0,
               n |-> 0, invoked |-> 0,
               before |-> [metrics |-> [calls |-> 0, successes |-> 0,
                                        failures |-> 0, cached_hits |-> 0],
                           cache |-> <<>>],
               hist |-> [unbound |-> 0, unhashable |-> 0, misses |-> 0,
                         runtime_errors |-> 0],
               last |-> StepNoCall]
  /\ retry = Absent
  /\ hooks = Absent
  /\ inst = Absent

\* a list of n items, which has no hash
PyList(n) == [t |-> "list", v |-> n]
\* hash(val) succeeds, as `cache_key in self.cache` needs
Hashable(val) == val.t # "list"
\* what the step's function is called with: one hashable argument, none,
\* or one list
StepInputs ==
  OneArgInputs("flaky_operation") \cup {[args |-> <<PyList(1)>>, kwargs |-> <<>>]}

\* `self.metrics[name] += 1`
Bump(m, name) == [m EXCEPT ![name] = @ + 1]
\* variant: a cache hit is not counted as a success
StepHitMetrics_HitOnly(m) == Bump(m, "cached_hits")

\* lines 392-393: a cache hit counts as a hit and as a success
StepHitMetrics(m) == Bump(Bump(m, "cached_hits"), "successes")
\* variant: the loop allows one attempt more
MayAttempt_OneMore(attempts, max) == attempts <= max

\* line 398: `while attempts < self.max_retries`
MayAttempt(attempts, max) == attempts < max
\* variant: a failed attempt is not counted
StepFailMetrics_Lost(m) == m

\* variant: a failed attempt is counted twice
StepFailMetrics_Twice(m) == Bump(Bump(m, "failures"), "failures")

\* line 410: `self.metrics["failures"] += 1`
StepFailMetrics(m) == Bump(m, "failures")

\* lines 380-397: one call of the wrapper up to the retry loop
StepCall ==
  /\ step # Absent
  /\ step.pc = "idle"
  /\ step.n < StepCalls
  /\ \E c \in StepInputs :
       LET counted == Bump(step.metrics, "calls") IN
       IF ~Bindable(func, c.args, c.kwargs)
         THEN \* sig.bind raises TypeError after the call was counted
              step' = [step EXCEPT
                         !.metrics = counted, !.n = @ + 1,
                         !.hist.unbound = @ + 1,
                         !.before = [metrics |-> step.metrics, cache |-> step.cache],
                         !.last = [StepNoCall EXCEPT !.outcome = "TypeError"]]
       ELSE IF ~Hashable(c.args[1])
         THEN \* `cache_key in self.cache` raises TypeError: unhashable
              step' = [step EXCEPT
                         !.metrics = counted, !.n = @ + 1,
                         !.hist.unhashable = @ + 1,
                         !.before = [metrics |-> step.metrics, cache |-> step.cache],
                         !.last = [StepNoCall EXCEPT !.outcome = "TypeError"]]
         ELSE LET key == MakeCacheKey(func, c.args, c.kwargs) IN
              IF DictHas(step.cache, key)
                THEN step' = [step EXCEPT
                                !.metrics = StepHitMetrics(counted), !.n = @ + 1,
                                !.before = [metrics |-> step.metrics,
                                            cache |-> step.cache],
                                !.last = [StepNoCall EXCEPT
                                            !.outcome = "hit", !.key = key,
                                            !.result = DictGet(step.cache, key)]]
                ELSE step' = [step EXCEPT
                                !.metrics = counted, !.pc = "loop",
                                !.hist.misses = @ + 1,
                                !.key = key, !.arg = c.args[1],
                                !.attempts = 0, !.invoked = 0,
                                !.before = [metrics |-> step.metrics,
                                            cache |-> step.cache]]
  /\ UNCHANGED StepFrame

\* lines 398-411: one pass of the retry loop; the function returns or
\* raises
StepAttempt ==
  /\ step # Absent
  /\ step.pc = "loop"
  /\ MayAttempt(step.attempts, step.max_retries)
  /\ \E returns \in BOOLEAN :
       LET result == BodyResult(func, NewFrame(step.key, <<step.arg>>)) IN
       IF returns
         THEN step' = [step EXCEPT
                         !.cache = DictSet(@, step.key, result),
                         !.metrics = Bump(@, "successes"),
                         !.pc = "idle", !.n = @ + 1,
                         !.key = <<>>, !.arg = PyNone, !.attempts = 0,
                         !.invoked = 0,
                         !.last = [outcome |-> "returned", key |-> step.key,
                                   result |-> result,
                                   invoked |-> step.invoked + 1,
                                   fails |-> step.invoked, reported |-> 0]]
         ELSE step' = [step EXCEPT
                         !.attempts = @ + 1,
                         !.metrics = StepFailMetrics(@),
                         !.invoked = @ + 1]
  /\ UNCHANGED StepFrame

\* lines 412-417: the loop is over, RuntimeError reports max_retries
StepGiveUp ==
  /\ step # Absent
  /\ step.pc = "loop"
  /\ ~MayAttempt(step.attempts, step.max_retries)
  /\ step' = [step EXCEPT
                !.pc = "idle", !.n = @ + 1,
                !.hist.runtime_errors = @ + 1,
                !.key = <<>>, !.arg = PyNone, !.attempts = 0, !.invoked = 0,
                !.last = [outcome |-> "RuntimeError", key |-> step.key,
                          result |-> PyNone, invoked |-> step.invoked,
                          fails |-> step.invoked,
                          reported |-> step.max_retries]]
  /\ UNCHANGED StepFrame

StepNext == StepCall \/ StepAttempt \/ StepGiveUp

StepSpec == StepInit /\ [][StepNext]_vars

\* -------------------------------------------------------- RetryDecorator
\* A RetryDecorator around a function that on any execution returns,
\* raises an exception listed in `exceptions` (retryable) or raises another
\* Exception. base_delay is 1 second, jitter is left at its default False.
RetryCalls == 2

\* everything but the retry decorator
RetryFrame == <<target, func, max_cache_size, ChainVars, cache, cache_hits_miss,
                stack, calls, keyed, total_calls, cur, last, fifo, ins_log,
                script, thr, step, hooks, inst>>

RetryNoCall == [outcome |-> "none", executions |-> 0, slept |-> <<>>]

RetryInit ==
  /\ target = "RetryDecorator"
  /\ func = "flaky_operation"
  /\ max_cache_size = DefaultMaxCacheSize
  /\ chain_max_cache_size = DefaultMaxCacheSize
  /\ cache = <<>>
  /\ cache_hits_miss = ZeroCounters
  /\ stack = <<>>
  /\ chain_cache = <<>>
  /\ chain_cache_hit_miss = ZeroCounters
  /\ calls = 0
  /\ keyed = 0
  /\ total_calls = 0
  /\ cur = Idle
  /\ last = NoOp
  /\ fifo = <<>>
  /\ ins_log = <<>>
  /\ script = <<>>
  /\ thr = Absent
  /\ step = Absent
  /\ \E r \in 0..MaxRetries, e \in BOOLEAN :
       retry = [max_retries |-> r, base_delay |-> 1, exponential |-> e,
                statistics |-> [total_attempts |-> 0, successful_attempts |-> 0],
                pc |-> "idle", attempt |-> 0, slept |-> <<>>, n |-> 0,
                last |-> RetryNoCall]
  /\ hooks = Absent
  /\ inst = Absent

RECURSIVE Pow2(_)
Pow2(n) == IF n = 0 THEN 1 ELSE 2 * Pow2(n - 1)

\* _calculate_delay without jitter
CalculateDelay(attempt) ==
  IF retry.exponential
    THEN retry.base_delay * Pow2(attempt - 1)
    ELSE retry.base_delay

\* line 127: `if attempt >= self.max_retries`: no retry is left
NoRetryLeft(attempt, max) == attempt >= max

\* line 118: the loop starts with attempt = 1
RetryCall ==
  /\ retry # Absent
  /\ retry.pc = "idle"
  /\ retry.n < RetryCalls
  /\ retry' = [retry EXCEPT !.pc = "loop", !.attempt = 1, !.slept = <<>>]
  /\ UNCHANGED RetryFrame

\* the call is over: returned, or raised the function's exception
RetryDone(outcome) ==
  [retry EXCEPT
     !.statistics.total_attempts = @ + 1,
     !.statistics.successful_attempts = IF outcome = "returned" THEN @ + 1 ELSE @,
     !.pc = "idle", !.attempt = 0, !.slept = <<>>, !.n = @ + 1,
     !.last = [outcome |-> outcome, executions |-> retry.attempt,
               slept |-> retry.slept]]

\* lines 118-146: one pass of `for attempt in range(1, max_retries + 2)`
RetryAttempt ==
  /\ retry # Absent
  /\ retry.pc = "loop"
  /\ retry.attempt < retry.max_retries + 2
  /\ \E outcome \in {"returned", "retryable", "other"} :
       IF outcome = "retryable" /\ ~NoRetryLeft(retry.attempt, retry.max_retries)
         THEN \* sleep, then the next pass
              retry' = [retry EXCEPT
                          !.statistics.total_attempts = @ + 1,
                          !.slept = Append(@, CalculateDelay(retry.attempt)),
                          !.attempt = @ + 1]
         ELSE retry' = RetryDone(outcome)
  /\ UNCHANGED RetryFrame

RetryNext == RetryCall \/ RetryAttempt

RetrySpec == RetryInit /\ [][RetryNext]_vars

\* ---------------------------------------------------- DecoratorWithHooks
\* One DecoratorWithHooks, the function it decorates and the hooks
\* registered with it. A hook, like the function, returns or raises when
\* it runs; before(None) and after(None) are calls too.
MaxRegs == 4
HookCalls == 2

HookNames == {"h1", "h2"}
HookArgs == HookNames \cup {"None"}

\* everything but the hooks decorator
HooksFrame == <<target, func, max_cache_size, ChainVars, cache, cache_hits_miss,
                stack, calls, keyed, total_calls, cur, last, fifo, ins_log,
                script, thr, step, retry, inst>>

HooksNoCall == [outcome |-> "none", log |-> <<>>, raisers |-> {},
                func_raised |-> FALSE]

HooksInit ==
  /\ target = "DecoratorWithHooks"
  /\ func = "process_data"
  /\ max_cache_size = DefaultMaxCacheSize
  /\ chain_max_cache_size = DefaultMaxCacheSize
  /\ cache = <<>>
  /\ cache_hits_miss = ZeroCounters
  /\ stack = <<>>
  /\ chain_cache = <<>>
  /\ chain_cache_hit_miss = ZeroCounters
  /\ calls = 0
  /\ keyed = 0
  /\ total_calls = 0
  /\ cur = Idle
  /\ last = NoOp
  /\ fifo = <<>>
  /\ ins_log = <<>>
  /\ script = <<>>
  /\ thr = Absent
  /\ step = Absent
  /\ retry = Absent
  /\ hooks = [before_hooks |-> <<>>, after_hooks |-> <<>>,
              decorated |-> FALSE,
              reg_before |-> <<>>, reg_after |-> <<>>, late |-> {},
              n |-> 0, last |-> HooksNoCall]
  /\ inst = Absent

InSeq(q, x) == \E i \in 1..Len(q) : q[i] = x
\* variant: the hook is appended whether or not it is already there
Register_Always(list, hook_func) ==
  IF hook_func # "None" THEN Append(list, hook_func) ELSE list

\* `if hook_func and hook_func not in list: list.append(hook_func)`
Register(list, hook_func) ==
  IF hook_func # "None" /\ ~InSeq(list, hook_func)
    THEN Append(list, hook_func)
    ELSE list

\* the registration history after one more call of before() / after()
Registered(history, hook_func) ==
  IF hook_func # "None" THEN Append(history, hook_func) ELSE history

\* __call__: the function is decorated
Decorate ==
  /\ hooks # Absent
  /\ ~hooks.decorated
  /\ hooks' = [hooks EXCEPT !.decorated = TRUE]
  /\ UNCHANGED HooksFrame

\* DecoratorWithHooks.before
RegisterBefore ==
  /\ hooks # Absent
  /\ Len(hooks.reg_before) + Len(hooks.reg_after) < MaxRegs
  /\ \E h \in HookArgs :
       hooks' = [hooks EXCEPT
                   !.before_hooks = Register(@, h),
                   !.reg_before = Registered(@, h),
                   !.late = IF hooks.decorated /\ h # "None"
                              THEN @ \cup {<<"before", h>>} ELSE @]
  /\ UNCHANGED HooksFrame

\* DecoratorWithHooks.after
RegisterAfter ==
  /\ hooks # Absent
  /\ Len(hooks.reg_before) + Len(hooks.reg_after) < MaxRegs
  /\ \E h \in HookArgs :
       hooks' = [hooks EXCEPT
                   !.after_hooks = Register(@, h),
                   !.reg_after = Registered(@, h),
                   !.late = IF hooks.decorated /\ h # "None"
                              THEN @ \cup {<<"after", h>>} ELSE @]
  /\ UNCHANGED HooksFrame

\* the hooks of list that run when those in raisers raise: all of them up
\* to and including the first that raises
RunHooks(list, raisers) ==
  LET stop == {i \in 1..Len(list) : list[i] \in raisers}
      upto == IF stop = {} THEN Len(list)
              ELSE CHOOSE i \in stop : \A j \in stop : i <= j
  IN SubSeq(list, 1, upto)

Tagged(kind, list) == [i \in 1..Len(list) |-> <<kind, list[i]>>]

\* variant: the after-hooks run only when the function returns
RanAfter_OnlyOnReturn(after_hooks, raisers, func_raises) ==
  IF func_raises THEN <<>> ELSE RunHooks(after_hooks, raisers)

\* lines 257-259: the `finally` block runs the after-hooks whether the
\* function returned or raised
RanAfter(after_hooks, raisers, func_raises) == RunHooks(after_hooks, raisers)

\* lines 251-260: one call of the wrapper
HooksCall ==
  /\ hooks # Absent
  /\ hooks.decorated
  /\ hooks.n < HookCalls
  /\ \E raisers \in SUBSET HookNames, func_raises \in BOOLEAN :
       LET ran_before == RunHooks(hooks.before_hooks, raisers)
           before_raised == \E i \in 1..Len(ran_before) : ran_before[i] \in raisers
           ran_after == RanAfter(hooks.after_hooks, raisers, func_raises)
           after_raised == \E i \in 1..Len(ran_after) : ran_after[i] \in raisers
       IN hooks' = [hooks EXCEPT
            !.n = @ + 1,
            !.last =
              IF before_raised
                THEN [outcome |-> "before_hook_raised",
                      log |-> Tagged("before", ran_before),
                      raisers |-> raisers, func_raised |-> FALSE]
                ELSE [outcome |-> IF after_raised THEN "after_hook_raised"
                                  ELSE IF func_raises THEN "func_raised"
                                  ELSE "returned",
                      log |-> Tagged("before", ran_before) \o <<<<"func", func>>>>
                                \o Tagged("after", ran_after),
                      raisers |-> raisers, func_raised |-> func_raises]]
  /\ UNCHANGED HooksFrame

HooksNext == Decorate \/ RegisterBefore \/ RegisterAfter \/ HooksCall

HooksSpec == HooksInit /\ [][HooksNext]_vars

\* ------------------------------------------- a re-entrant wrapped function
\* CacheDecorator(again, max_cache_size) with a positive capacity: the outer
\* call's result is stored under a key its own nested call has just stored.
AgainInit ==
  /\ target = "CacheDecorator"
  /\ func = "again"
  /\ max_cache_size \in 1..MaxCap
  /\ chain_max_cache_size = DefaultMaxCacheSize
  /\ cache = <<>> /\ cache_hits_miss = ZeroCounters /\ stack = <<>>
  /\ chain_cache = <<>> /\ chain_cache_hit_miss = ZeroCounters
  /\ calls = 0 /\ keyed = 0 /\ total_calls = 0 /\ cur = Idle /\ last = NoOp
  /\ fifo = <<>> /\ ins_log = <<>> /\ script = <<>> /\ thr = Absent
  /\ step = Absent /\ retry = Absent /\ hooks = Absent /\ inst = Absent

AgainNext == Call \/ Reenter \/ Return \/ ClearCache

AgainSpec == AgainInit /\ [][AgainNext]_vars

\* ======================================================== domain classes
\* The exercises below wrap nothing: no decorator is constructed.
NoDecorator ==
  /\ func = "none"
  /\ max_cache_size = DefaultMaxCacheSize
  /\ chain_max_cache_size = DefaultMaxCacheSize
  /\ cache = <<>>
  /\ cache_hits_miss = ZeroCounters
  /\ stack = <<>>
  /\ chain_cache = <<>>
  /\ chain_cache_hit_miss = ZeroCounters
  /\ calls = 0
  /\ keyed = 0
  /\ total_calls = 0
  /\ cur = Idle
  /\ last = NoOp
  /\ fifo = <<>>
  /\ ins_log = <<>>
  /\ script = <<>>
  /\ thr = Absent
  /\ step = Absent
  /\ retry = Absent
  /\ hooks = Absent

\* everything but the domain instances
InstFrame == <<target, func, max_cache_size, ChainVars, cache, cache_hits_miss,
               stack, calls, keyed, total_calls, cur, last, fifo, ins_log,
               script, thr, step, retry, hooks>>

\* -------------------------------------------------------------- Bank
\* A Bank, the accounts created in it and the calls made on them. Amounts
\* are whole numbers, as in the tests, and savings accounts are created
\* with the whole interest_rate 1. initial_balance remembers what the
\* account was constructed with.
BankOps == 4

AccountNumbers == {"A", "B"}
\* account numbers a caller may name: the two above and one never created
NamedNumbers == AccountNumbers \cup {"X"}
Amounts == {-1, 0, 1, 2}
InitialBalances == {0, 2}
\* min_balance= / overdraft_limit= passed to create_account
LimitKwarg == 1

BankNoCall == [op |-> "none", ok |-> FALSE, msg |-> "", from |-> "", to |-> "",
               amount |-> 0]

BankInit ==
  /\ target = "Bank"
  /\ NoDecorator
  /\ inst = [accounts |-> <<>>, n |-> 0, last |-> BankNoCall]

\* variant: an amount of zero passes the check
PositiveAmount_ZeroAllowed(amount) == amount >= 0

\* the negation of `if amount <= 0: return (False, ...)`
PositiveAmount(amount) == amount > 0
\* variant: the account's rule never refuses
BelowFloor_Never(acc, amount) == FALSE

\* SavingsAccount: `(self.balance - amount) < self.min_balance`;
\* CheckingAccount: `(self.balance - amount) < -self.overdraft_limit`
BelowFloor(acc, amount) ==
  IF acc.type = "savings"
    THEN (acc.balance - amount) < acc.min_balance
    ELSE (acc.balance - amount) < -acc.overdraft_limit

\* the (success, message) a withdraw returns, without the amounts
WithdrawResult(acc, amount) ==
  IF ~PositiveAmount(amount)
    THEN <<FALSE, "Withdrawal amount must be positive">>
  ELSE IF BelowFloor(acc, amount)
    THEN <<FALSE, IF acc.type = "savings"
                    THEN "Cannot withdraw below minimum balance"
                    ELSE "Cannot exceed overdraft limit">>
  ELSE <<TRUE, "Withdrew">>

\* variant: the withdrawal is taken but not recorded
Withdrawn_NotRecorded(acc, amount) ==
  IF WithdrawResult(acc, amount)[1]
    THEN [acc EXCEPT !.balance = @ - amount]
    ELSE acc

\* the account after withdraw(amount)
Withdrawn(acc, amount) ==
  IF WithdrawResult(acc, amount)[1]
    THEN [acc EXCEPT !.balance = @ - amount,
                     !.transaction_history = Append(@, <<"withdrawal", amount>>)]
    ELSE acc
\* variant: the deposit is recorded but not credited
Deposited_NotCredited(acc, amount) ==
  IF PositiveAmount(amount)
    THEN [acc EXCEPT !.transaction_history = Append(@, <<"deposit", amount>>)]
    ELSE acc

\* the account after deposit(amount)
Deposited(acc, amount) ==
  IF PositiveAmount(amount)
    THEN [acc EXCEPT !.balance = @ + amount,
                     !.transaction_history = Append(@, <<"deposit", amount>>)]
    ELSE acc

\* SavingsAccount(...) / CheckingAccount(...)
NewAccount(type, balance) ==
  IF type = "savings"
    THEN [type |-> "savings", balance |-> balance, min_balance |-> LimitKwarg,
          overdraft_limit |-> 0, interest_rate |-> 1,
          transaction_history |-> <<>>, initial_balance |-> balance]
    ELSE [type |-> "checking", balance |-> balance, min_balance |-> 0,
          overdraft_limit |-> LimitKwarg, interest_rate |-> 0,
          transaction_history |-> <<>>, initial_balance |-> balance]

\* accounts with accounts[number] = acc
WithAccount(accounts, number, acc) ==
  [k \in DOMAIN accounts \cup {number} |->
     IF k = number THEN acc ELSE accounts[k]]

\* the bank after one more call that left result (op, ok, msg, from, to,
\* amount) and the accounts as given
BankAfter(accounts, op, ok, msg, from, to, amount) ==
  [accounts |-> accounts, n |-> inst.n + 1,
   last |-> [op |-> op, ok |-> ok, msg |-> msg, from |-> from, to |-> to,
             amount |-> amount]]

\* Bank.create_account
CreateAccount ==
  /\ target = "Bank"
  /\ inst.n < BankOps
  /\ \E type \in {"savings", "checking", "investment"},
        number \in AccountNumbers, balance \in InitialBalances :
       inst' =
         IF number \in DOMAIN inst.accounts
           THEN BankAfter(inst.accounts, "create_account", FALSE,
                          "Account number already exists", number, "", balance)
         ELSE IF type \notin {"savings", "checking"}
           THEN BankAfter(inst.accounts, "create_account", FALSE,
                          "Invalid account type", number, "", balance)
         ELSE BankAfter(WithAccount(inst.accounts, number, NewAccount(type, balance)),
                        "create_account", TRUE, "account created successfully",
                        number, "", balance)
  /\ UNCHANGED InstFrame

\* Account.deposit on an account of the bank
Deposit ==
  /\ target = "Bank"
  /\ inst.n < BankOps
  /\ \E number \in DOMAIN inst.accounts, amount \in Amounts :
       inst' = BankAfter(WithAccount(inst.accounts, number,
                                     Deposited(inst.accounts[number], amount)),
                         "deposit", PositiveAmount(amount),
                         IF PositiveAmount(amount) THEN "Deposited"
                         ELSE "Deposit amount must be positive",
                         "", number, amount)
  /\ UNCHANGED InstFrame

\* SavingsAccount.withdraw / CheckingAccount.withdraw on an account of the
\* bank
Withdraw ==
  /\ target = "Bank"
  /\ inst.n < BankOps
  /\ \E number \in DOMAIN inst.accounts, amount \in Amounts :
       LET acc == inst.accounts[number]
           res == WithdrawResult(acc, amount)
       IN inst' = BankAfter(WithAccount(inst.accounts, number, Withdrawn(acc, amount)),
                            "withdraw", res[1], res[2], number, "", amount)
  /\ UNCHANGED InstFrame

\* Bank.transfer
Transfer ==
  /\ target = "Bank"
  /\ inst.n < BankOps
  /\ \E from \in NamedNumbers, to \in NamedNumbers, amount \in Amounts :
       IF from \notin DOMAIN inst.accounts \/ to \notin DOMAIN inst.accounts
         THEN inst' = BankAfter(inst.accounts, "transfer", FALSE,
                                "One or both accounts not found", from, to, amount)
         ELSE LET res == WithdrawResult(inst.accounts[from], amount)
                  debited == WithAccount(inst.accounts, from,
                                         Withdrawn(inst.accounts[from], amount))
                  credited == WithAccount(debited, to, Deposited(debited[to], amount))
              IN IF ~res[1]
                   THEN inst' = BankAfter(inst.accounts, "transfer", FALSE,
                                          "Transfer failed: " \o res[2],
                                          from, to, amount)
                   ELSE inst' = BankAfter(credited, "transfer", TRUE,
                                          "Transferred", from, to, amount)
  /\ UNCHANGED InstFrame

\* SavingsAccount.apply_interest on a savings account of the bank
SavingsApplyInterest ==
  /\ target = "Bank"
  /\ inst.n < BankOps
  /\ \E number \in DOMAIN inst.accounts :
       /\ inst.accounts[number].type = "savings"
       /\ LET acc == inst.accounts[number]
              interest == acc.balance * acc.interest_rate
          IN inst' = BankAfter(
                       WithAccount(inst.accounts, number,
                         [acc EXCEPT !.balance = @ + interest,
                                     !.transaction_history =
                                        Append(@, <<"interest", interest>>)]),
                       "apply_interest", TRUE, "Applied interest", number, "",
                       interest)
  /\ UNCHANGED InstFrame

BankNext ==
  CreateAccount \/ Deposit \/ Withdraw \/ Transfer \/ SavingsApplyInterest

BankSpec == BankInit /\ [][BankNext]_vars

\* ----------------------------------------------------------- Library
\* A Library, the Book and User objects a caller holds, and the calls made.
\* A Book or User is an object: adding the same object twice puts it in the
\* list twice, and two objects may carry the same isbn or user_id.
LibraryOps == 5

BookObjects == {"b1", "b2", "b3"}
UserObjects == {"u1", "u2"}
\* book b3 was constructed with the isbn of b1
IsbnOf(book) == IF book = "b2" THEN "i2" ELSE "i1"
UserIdOf(user) == IF user = "u2" THEN "p2" ELSE "p1"
\* what a caller may pass to borrow_book: the values above and unknown ones
Isbns == {"i1", "i2", "i9"}
UserIds == {"p1", "p2", "p9"}

LibraryNoCall == [op |-> "none", msg |-> "", isbn |-> "", user_id |-> ""]

LibraryInit ==
  /\ target = "Library"
  /\ NoDecorator
  /\ inst = [books |-> <<>>, users |-> <<>>,
             book |-> [b \in BookObjects |-> [available |-> TRUE, borrower |-> "None"]],
             user |-> [u \in UserObjects |-> [books_borrowed |-> <<>>]],
             n |-> 0, borrowed |-> 0, last |-> LibraryNoCall]

\* next((x for x in list if attr(x) == wanted), None): the index of the first
\* match, 0 for None
FirstBook(books, isbn) ==
  IF \E i \in 1..Len(books) : IsbnOf(books[i]) = isbn
    THEN CHOOSE i \in 1..Len(books) :
           /\ IsbnOf(books[i]) = isbn
           /\ \A j \in 1..(i - 1) : IsbnOf(books[j]) # isbn
    ELSE 0
FirstUser(users, user_id) ==
  IF \E i \in 1..Len(users) : UserIdOf(users[i]) = user_id
    THEN CHOOSE i \in 1..Len(users) :
           /\ UserIdOf(users[i]) = user_id
           /\ \A j \in 1..(i - 1) : UserIdOf(users[j]) # user_id
    ELSE 0
\* variant: the user is looked at before the book
BorrowMessage_UserFirst(lib, isbn, user_id) ==
  IF FirstUser(lib.users, user_id) = 0 THEN "User not found"
  ELSE IF FirstBook(lib.books, isbn) = 0 THEN "Book not found"
  ELSE IF ~lib.book[lib.books[FirstBook(lib.books, isbn)]].available
    THEN "Book is not available"
  ELSE "Book borrowed successfully"

\* the string borrow_book returns
BorrowMessage(lib, isbn, user_id) ==
  IF FirstBook(lib.books, isbn) = 0 THEN "Book not found"
  ELSE IF FirstUser(lib.users, user_id) = 0 THEN "User not found"
  ELSE IF ~lib.book[lib.books[FirstBook(lib.books, isbn)]].available
    THEN "Book is not available"
  ELSE "Book borrowed successfully"
\* variant: the book is marked unavailable without a borrower
Lent_NoBorrower(lib, b, u) ==
  [lib EXCEPT !.book[b] = [available |-> FALSE, borrower |-> "None"],
              !.user[u].books_borrowed = Append(@, b)]
\* variant: the book is handed over but stays available
Lent_StillAvailable(lib, b, u) ==
  [lib EXCEPT !.book[b] = [available |-> TRUE, borrower |-> u],
              !.user[u].books_borrowed = Append(@, b)]

\* the library after book b was lent to user u
Lent(lib, b, u) ==
  [lib EXCEPT !.book[b] = [available |-> FALSE, borrower |-> u],
              !.user[u].books_borrowed = Append(@, b)]

\* Library.add_book
AddBook ==
  /\ target = "Library"
  /\ inst.n < LibraryOps
  /\ \E b \in BookObjects :
       inst' = [inst EXCEPT !.books = Append(@, b), !.n = @ + 1,
                            !.last = [op |-> "add_book", msg |-> "", isbn |-> IsbnOf(b),
                                      user_id |-> ""]]
  /\ UNCHANGED InstFrame

\* Library.add_user
AddUser ==
  /\ target = "Library"
  /\ inst.n < LibraryOps
  /\ \E u \in UserObjects :
       inst' = [inst EXCEPT !.users = Append(@, u), !.n = @ + 1,
                            !.last = [op |-> "add_user", msg |-> "", isbn |-> "",
                                      user_id |-> UserIdOf(u)]]
  /\ UNCHANGED InstFrame

\* Library.borrow_book
BorrowBook ==
  /\ target = "Library"
  /\ inst.n < LibraryOps
  /\ \E isbn \in Isbns, user_id \in UserIds :
       LET msg == BorrowMessage(inst, isbn, user_id)
           done == [inst EXCEPT !.n = @ + 1,
                                !.last = [op |-> "borrow_book", msg |-> msg,
                                          isbn |-> isbn, user_id |-> user_id]]
       IN inst' =
            IF msg = "Book borrowed successfully"
              THEN [Lent(done, inst.books[FirstBook(inst.books, isbn)],
                         inst.users[FirstUser(inst.users, user_id)])
                      EXCEPT !.borrowed = @ + 1]
              ELSE done
  /\ UNCHANGED InstFrame

\* sum(1 for x in list if pred(x))
RECURSIVE CountAvailable(_, _)
CountAvailable(lib, books) ==
  IF books = <<>> THEN 0
  ELSE (IF lib.book[Head(books)].available THEN 1 ELSE 0)
         + CountAvailable(lib, Tail(books))
RECURSIVE CountHolding(_, _)
CountHolding(lib, users) ==
  IF users = <<>> THEN 0
  ELSE (IF lib.user[Head(users)].books_borrowed # <<>> THEN 1 ELSE 0)
         + CountHolding(lib, Tail(users))

\* Library.get_statistics
GetStatistics(lib) ==
  [total_books |-> Len(lib.books),
   available_books |-> CountAvailable(lib, lib.books),
   borrowed_books |-> Len(lib.books) - CountAvailable(lib, lib.books),
   total_users |-> Len(lib.users),
   users_with_books |-> CountHolding(lib, lib.users)]

LibraryNext == AddBook \/ AddUser \/ BorrowBook

LibrarySpec == LibraryInit /\ [][LibraryNext]_vars

\* --------------------------------------------------- Course and Student
\* Courses and Students of the e-learning platform. Courses are constructed
\* with any max_capacity (the constructor checks nothing); a caller may use
\* the Course methods directly or go through the Student methods.
CourseOps == 4

Courses == {"c1", "c2"}
Students == {"s1", "s2"}
Capacities == {-1, 1, 2}

CourseNoCall == [op |-> "none", course |-> "", student |-> "", ok |-> FALSE,
                 add |-> "not called"]

CourseInit ==
  /\ target = "Course"
  /\ NoDecorator
  /\ \E caps \in [Courses -> Capacities] :
       inst = [max_capacity |-> caps,
               students |-> [c \in Courses |-> <<>>],
               completed_students |-> [c \in Courses |-> <<>>],
               enrolled_courses |-> [s \in Students |-> <<>>],
               completed_courses |-> [s \in Students |-> <<>>],
               n |-> 0, direct |-> FALSE, last |-> CourseNoCall]

\* list.remove(x): the list without the first occurrence of x
ListRemove(list, x) ==
  LET i == CHOOSE i \in 1..Len(list) :
             list[i] = x /\ \A j \in 1..(i - 1) : list[j] # x
  IN SubSeq(list, 1, i - 1) \o SubSeq(list, i + 1, Len(list))
\* variant: a full course still takes the student
AddRejected_DuplicateOnly(st, c, s) == InSeq(st.students[c], s)

\* `len(self.students) >= self.max_capacity or student in self.students`
AddRejected(st, c, s) ==
  Len(st.students[c]) >= st.max_capacity[c] \/ InSeq(st.students[c], s)

\* the state after course.add_student(student)
AddStudentTo(st, c, s) ==
  IF AddRejected(st, c, s) THEN st
  ELSE [st EXCEPT !.students[c] = Append(@, s)]

\* the state after course.remove_student(student)
RemoveStudentFrom(st, c, s) ==
  IF ~InSeq(st.students[c], s) THEN st
  ELSE [st EXCEPT !.students[c] = ListRemove(@, s)]

\* the state after course.mark_completed(student)
MarkCompletedIn(st, c, s) ==
  IF ~InSeq(st.students[c], s) THEN st
  ELSE [st EXCEPT !.students[c] = ListRemove(@, s),
                  !.completed_students[c] = Append(@, s)]
\* variant: the student's own list keeps the course
Unenrolled_KeepsCourse(st, c, s) ==
  IF ~InSeq(st.enrolled_courses[s], c) THEN st
  ELSE IF InSeq(st.students[c], s)
    THEN RemoveStudentFrom(st, c, s)
  ELSE st

\* the state after student.unenroll(course)
Unenrolled(st, c, s) ==
  IF ~InSeq(st.enrolled_courses[s], c) THEN st
  ELSE IF InSeq(st.students[c], s)
    THEN [RemoveStudentFrom(st, c, s)
            EXCEPT !.enrolled_courses[s] = ListRemove(@, c)]
  ELSE st

\* the state after student.enroll(course)
Enrolled(st, c, s) ==
  IF InSeq(st.enrolled_courses[s], c) THEN st
  ELSE IF ~AddRejected(st, c, s)
    THEN [AddStudentTo(st, c, s) EXCEPT !.enrolled_courses[s] = Append(@, c)]
  ELSE st

\* the state after student.complete_course(course)
CourseCompleted(st, c, s) ==
  IF ~InSeq(st.enrolled_courses[s], c) THEN st
  ELSE IF InSeq(st.students[c], s)
    THEN [MarkCompletedIn(st, c, s)
            EXCEPT !.enrolled_courses[s] = ListRemove(@, c),
                   !.completed_courses[s] = Append(@, c)]
  ELSE st

\* the state st after one more call, with what the call returned
CourseAfter(st, op, c, s, ok, add, direct) ==
  [st EXCEPT !.n = @ + 1, !.direct = @ \/ direct,
             !.last = [op |-> op, course |-> c, student |-> s, ok |-> ok,
                       add |-> add]]

\* Course.add_student called by the user
AddStudent ==
  /\ target = "Course"
  /\ inst.n < CourseOps
  /\ \E c \in Courses, s \in Students :
       inst' = CourseAfter(AddStudentTo(inst, c, s), "add_student", c, s,
                           ~AddRejected(inst, c, s),
                           IF AddRejected(inst, c, s) THEN "rejected" ELSE "accepted",
                           TRUE)
  /\ UNCHANGED InstFrame

\* Course.remove_student called by the user
RemoveStudent ==
  /\ target = "Course"
  /\ inst.n < CourseOps
  /\ \E c \in Courses, s \in Students :
       inst' = CourseAfter(RemoveStudentFrom(inst, c, s), "remove_student", c, s,
                           InSeq(inst.students[c], s), "not called", TRUE)
  /\ UNCHANGED InstFrame

\* Course.mark_completed called by the user
MarkCompleted ==
  /\ target = "Course"
  /\ inst.n < CourseOps
  /\ \E c \in Courses, s \in Students :
       inst' = CourseAfter(MarkCompletedIn(inst, c, s), "mark_completed", c, s,
                           InSeq(inst.students[c], s), "not called", TRUE)
  /\ UNCHANGED InstFrame

\* Student.enroll
Enroll ==
  /\ target = "Course"
  /\ inst.n < CourseOps
  /\ \E c \in Courses, s \in Students :
       LET called == ~InSeq(inst.enrolled_courses[s], c)
           ok == called /\ ~AddRejected(inst, c, s)
       IN inst' = CourseAfter(Enrolled(inst, c, s), "enroll", c, s, ok,
                              IF ~called THEN "not called"
                              ELSE IF ok THEN "accepted" ELSE "rejected",
                              FALSE)
  /\ UNCHANGED InstFrame

\* Student.unenroll
Unenroll ==
  /\ target = "Course"
  /\ inst.n < CourseOps
  /\ \E c \in Courses, s \in Students :
       inst' = CourseAfter(Unenrolled(inst, c, s), "unenroll", c, s,
                           InSeq(inst.enrolled_courses[s], c) /\ InSeq(inst.students[c], s),
                           "not called", FALSE)
  /\ UNCHANGED InstFrame

\* Student.complete_course
CompleteCourse ==
  /\ target = "Course"
  /\ inst.n < CourseOps
  /\ \E c \in Courses, s \in Students :
       inst' = CourseAfter(CourseCompleted(inst, c, s), "complete_course", c, s,
                           InSeq(inst.enrolled_courses[s], c) /\ InSeq(inst.students[c], s),
                           "not called", FALSE)
  /\ UNCHANGED InstFrame

CourseNext ==
  \/ AddStudent \/ RemoveStudent \/ MarkCompleted
  \/ Enroll \/ Unenroll \/ CompleteCourse

CourseSpec == CourseInit /\ [][CourseNext]_vars

\* ------------------------------------------------------ SecureMessenger
\* One SecureMessenger and the calls made on it. `correct` remembers whether
\* some login call was given the constructor's password.
MessengerOps == 4

Passwords == {"secure123", "pw"}
GivenPasswords == Passwords \cup {"guess"}
Messages == {"hello", ""}

MessengerNoCall == [op |-> "none", ret |-> ""]

MessengerInit ==
  /\ target = "SecureMessenger"
  /\ NoDecorator
  /\ \E password \in Passwords :
       inst = [password |-> password, messages |-> <<>>, login_attempts |-> 0,
               is_logged_in |-> FALSE, n |-> 0, correct |-> FALSE,
               last |-> MessengerNoCall]

\* "\n".join(messages)
RECURSIVE JoinLines(_)
JoinLines(messages) ==
  IF messages = <<>> THEN ""
  ELSE IF Len(messages) = 1 THEN messages[1]
  ELSE messages[1] \o "\n" \o JoinLines(Tail(messages))
\* variant: any password is taken
Authenticates_Any(password, given) == TRUE

\* `self.__password == password`
Authenticates(password, given) == password = given

\* SecureMessenger.add_message
AddMessage ==
  /\ target = "SecureMessenger"
  /\ inst.n < MessengerOps
  /\ \E message \in Messages :
       inst' = IF inst.is_logged_in
                 THEN [inst EXCEPT !.messages = Append(@, message), !.n = @ + 1,
                                   !.last = [op |-> "add_message",
                                             ret |-> "Message added: " \o message]]
                 ELSE [inst EXCEPT !.n = @ + 1,
                                   !.last = [op |-> "add_message",
                                             ret |-> "Error: You must be logged in to add messages"]]
  /\ UNCHANGED InstFrame

\* SecureMessenger.login
Login ==
  /\ target = "SecureMessenger"
  /\ inst.n < MessengerOps
  /\ \E given \in GivenPasswords :
       inst' = IF Authenticates(inst.password, given)
                 THEN [inst EXCEPT !.login_attempts = @ + 1, !.is_logged_in = TRUE,
                                   !.n = @ + 1, !.correct = @ \/ (given = inst.password),
                                   !.last = [op |-> "login", ret |-> "Login successful"]]
                 ELSE [inst EXCEPT !.login_attempts = @ + 1,
                                   !.n = @ + 1, !.correct = @ \/ (given = inst.password),
                                   !.last = [op |-> "login",
                                             ret |-> "Login failed: Incorrect password"]]
  /\ UNCHANGED InstFrame

\* SecureMessenger.get_messages
GetMessages ==
  /\ target = "SecureMessenger"
  /\ inst.n < MessengerOps
  /\ inst' = [inst EXCEPT !.n = @ + 1,
                          !.last = [op |-> "get_messages",
                                    ret |-> IF inst.is_logged_in
                                              THEN IF inst.messages = <<>>
                                                     THEN "No messages"
                                                     ELSE JoinLines(inst.messages)
                                              ELSE "Error: You must be logged in to view messages"]]
  /\ UNCHANGED InstFrame

MessengerNext == AddMessage \/ Login \/ GetMessages

MessengerSpec == MessengerInit /\ [][MessengerNext]_vars

\* --------------------------------------------------- DatabaseConnection
\* The class attribute _instance, the one object it may hold, and what the
\* methods printed. Python runs __init__ on whatever __new__ returns, on
\* every DatabaseConnection() call.
SingletonOps == 6

SingletonNoCall == [op |-> "none", existed |-> FALSE, was_connected |-> FALSE]

SingletonInit ==
  /\ target = "DatabaseConnection"
  /\ NoDecorator
  /\ inst = [instance |-> "None", created |-> 0, host |-> "unset",
             connected |-> FALSE, out |-> <<>>, n |-> 0,
             last |-> SingletonNoCall]

\* what the call leaves in `last`: whether the object existed and was
\* connected when the call began
SingletonCalled(op) ==
  [op |-> op, existed |-> inst.instance # "None", was_connected |-> inst.connected]

\* DatabaseConnection(): __new__, then __init__ on the object returned
Construct ==
  /\ target = "DatabaseConnection"
  /\ inst.n < SingletonOps
  /\ inst' = [inst EXCEPT !.instance = "object",
                          !.created = IF inst.instance = "None" THEN @ + 1 ELSE @,
                          !.host = "localhost",
                          !.connected = FALSE,
                          !.n = @ + 1,
                          !.last = SingletonCalled("DatabaseConnection")]
  /\ UNCHANGED InstFrame

\* DatabaseConnection.connect
Connect ==
  /\ target = "DatabaseConnection"
  /\ inst.n < SingletonOps
  /\ inst.instance # "None"
  /\ inst' = [inst EXCEPT !.connected = TRUE,
                          !.out = Append(@, "Connected to database at localhost"),
                          !.n = @ + 1,
                          !.last = SingletonCalled("connect")]
  /\ UNCHANGED InstFrame

\* DatabaseConnection.disconnect
Disconnect ==
  /\ target = "DatabaseConnection"
  /\ inst.n < SingletonOps
  /\ inst.instance # "None"
  /\ inst' = [inst EXCEPT !.connected = FALSE,
                          !.out = Append(@, "Disconnected from database"),
                          !.n = @ + 1,
                          !.last = SingletonCalled("disconnect")]
  /\ UNCHANGED InstFrame

SingletonNext == Construct \/ Connect \/ Disconnect

SingletonSpec == SingletonInit /\ [][SingletonNext]_vars

\* ---------------------------------------------------------- BankAccount
\* One BankAccount. Amounts are whole numbers and the class attribute
\* interest_rate is a whole multiplier, set before the account is used; the
\* constructor raises for a negative initial balance, so an account starts
\* at zero or above.
AccountOps == 4

AccountAmounts == {-1, 0, 1, 2}
OpeningBalances == {0, 1, 2}
InterestRates == {-2, 0, 1}

AccountNoCall == [op |-> "none", ok |-> FALSE, amount |-> 0]

AccountInit ==
  /\ target = "BankAccount"
  /\ NoDecorator
  /\ \E initial_balance \in OpeningBalances, rate \in InterestRates :
       inst = [balance |-> initial_balance, interest_rate |-> rate, n |-> 0,
               last |-> AccountNoCall]

\* the account after one more call: new balance, and whether the call was
\* carried out
AccountAfter(balance, op, ok, amount) ==
  [inst EXCEPT !.balance = balance, !.n = @ + 1,
               !.last = [op |-> op, ok |-> ok, amount |-> amount]]
\* variant: only a negative amount is refused
WithdrawRejected_NegativeOnly(balance, amount) == amount < 0

\* `if amount < 0: ... elif amount > self.__balance: ...`
WithdrawRejected(balance, amount) == amount < 0 \/ amount > balance

\* the balance setter: account.balance = value
SetBalance ==
  /\ target = "BankAccount"
  /\ inst.n < AccountOps
  /\ \E value \in AccountAmounts :
       inst' = IF value < 0
                 THEN AccountAfter(inst.balance, "balance", FALSE, value)
                 ELSE AccountAfter(value, "balance", TRUE, value)
  /\ UNCHANGED InstFrame

\* BankAccount.deposit
AccountDeposit ==
  /\ target = "BankAccount"
  /\ inst.n < AccountOps
  /\ \E amount \in AccountAmounts :
       inst' = IF amount < 0
                 THEN AccountAfter(inst.balance, "deposit", FALSE, amount)
                 ELSE AccountAfter(inst.balance + amount, "deposit", TRUE, amount)
  /\ UNCHANGED InstFrame

\* BankAccount.withdraw
AccountWithdraw ==
  /\ target = "BankAccount"
  /\ inst.n < AccountOps
  /\ \E amount \in AccountAmounts :
       inst' = IF WithdrawRejected(inst.balance, amount)
                 THEN AccountAfter(inst.balance, "withdraw", FALSE, amount)
                 ELSE AccountAfter(inst.balance - amount, "withdraw", TRUE, amount)
  /\ UNCHANGED InstFrame

\* BankAccount.apply_interest
ApplyInterest ==
  /\ target = "BankAccount"
  /\ inst.n < AccountOps
  /\ LET interest == inst.balance * inst.interest_rate
     IN inst' = AccountAfter(inst.balance + interest, "apply_interest", TRUE, interest)
  /\ UNCHANGED InstFrame

AccountNext == SetBalance \/ AccountDeposit \/ AccountWithdraw \/ ApplyInterest

AccountSpec == AccountInit /\ [][AccountNext]_vars

\* ---------------------------------------------------------- CallCounter
\* One CallCounter (decorators_e004) around a function that returns or
\* raises. max_calls is None or any integer the caller passed. `since` and
\* `executed` count the calls made and the executions of the function since
\* construction or the last reset().
CounterOps == 5

MaxCallsChoices == {PyNone, PyInt(-1), PyInt(0), PyInt(1), PyInt(2)}

CounterInit ==
  /\ target = "CallCounter"
  /\ NoDecorator
  /\ \E m \in MaxCallsChoices :
       inst = [max_calls |-> m, call_count |-> 0, since |-> 0, executed |-> 0,
               n |-> 0, last |-> [op |-> "none", outcome |-> "none"]]
\* variant: one call more is let through
Exceeded_OneLate(call_count, max_calls) ==
  max_calls # PyNone /\ call_count > max_calls.v + 1

\* `(self.max_calls is not None) and (self.call_count > self.max_calls)`
Exceeded(call_count, max_calls) ==
  max_calls # PyNone /\ call_count > max_calls.v

\* CallCounter.__call__; the function returns or raises
CounterCall ==
  /\ target = "CallCounter"
  /\ inst.n < CounterOps
  /\ \E func_raises \in BOOLEAN :
       inst' = IF Exceeded(inst.call_count + 1, inst.max_calls)
                 THEN [inst EXCEPT !.call_count = @ + 1, !.since = @ + 1, !.n = @ + 1,
                                   !.last = [op |-> "call", outcome |-> "RuntimeError"]]
                 ELSE [inst EXCEPT !.call_count = @ + 1, !.since = @ + 1, !.n = @ + 1,
                                   !.executed = @ + 1,
                                   !.last = [op |-> "call",
                                             outcome |-> IF func_raises THEN "func_raised"
                                                         ELSE "returned"]]
  /\ UNCHANGED InstFrame

\* CallCounter.reset
CounterReset ==
  /\ target = "CallCounter"
  /\ inst.n < CounterOps
  /\ inst' = [inst EXCEPT !.call_count = 0, !.since = 0, !.executed = 0, !.n = @ + 1,
                          !.last = [op |-> "reset", outcome |-> "returned"]]
  /\ UNCHANGED InstFrame

CounterNext == CounterCall \/ CounterReset

CounterSpec == CounterInit /\ [][CounterNext]_vars

\* ------------------------------------------------------------ Directory
\* Two Directory objects (composite_patterns) and the components a caller
\* holds: two File objects constructed with the same name and the second
\* directory. A component's name can be reassigned through its setter;
\* `renamed` remembers whether that was done.
DirOps == 4

Dirs == {"root", "sub"}
Components == {"f1", "f2", "sub"}
ComponentNames == {"a", "b"}

DirInit ==
  /\ target = "Directory"
  /\ NoDecorator
  /\ inst = [children |-> [d \in Dirs |-> <<>>],
             name |-> [c \in Components |-> IF c = "sub" THEN "b" ELSE "a"],
             n |-> 0, renamed |-> FALSE,
             last |-> [op |-> "none", dir |-> "", component |-> "", outcome |-> "none"]]

\* the index of the first child of dir whose name is `name`, 0 if none:
\* `for comp in self._components: if comp.name == name`
ChildNamed(st, dir, name) ==
  IF \E i \in 1..Len(st.children[dir]) : st.name[st.children[dir][i]] = name
    THEN CHOOSE i \in 1..Len(st.children[dir]) :
           /\ st.name[st.children[dir][i]] = name
           /\ \A j \in 1..(i - 1) : st.name[st.children[dir][j]] # name
    ELSE 0
\* variant: only the object itself counts as a duplicate
Clashes_SameObject(st, dir, component) == InSeq(st.children[dir], component)

\* Directory.add finds a child with the component's name
Clashes(st, dir, component) == ChildNamed(st, dir, st.name[component]) # 0

\* Directory.add
DirAdd ==
  /\ target = "Directory"
  /\ inst.n < DirOps
  /\ \E dir \in Dirs, component \in Components :
       inst' = IF Clashes(inst, dir, component)
                 THEN [inst EXCEPT !.n = @ + 1,
                                   !.last = [op |-> "add", dir |-> dir,
                                             component |-> component,
                                             outcome |-> "ValueError"]]
                 ELSE [inst EXCEPT !.children[dir] = Append(@, component),
                                   !.n = @ + 1,
                                   !.last = [op |-> "add", dir |-> dir,
                                             component |-> component,
                                             outcome |-> "returned"]]
  /\ UNCHANGED InstFrame

\* Directory.remove
DirRemove ==
  /\ target = "Directory"
  /\ inst.n < DirOps
  /\ \E dir \in Dirs, component \in Components :
       LET i == ChildNamed(inst, dir, inst.name[component])
       IN inst' = IF i = 0
                    THEN [inst EXCEPT !.n = @ + 1,
                                      !.last = [op |-> "remove", dir |-> dir,
                                                component |-> component,
                                                outcome |-> "ValueError"]]
                    ELSE [inst EXCEPT !.children[dir] =
                                         SubSeq(@, 1, i - 1) \o SubSeq(@, i + 1, Len(@)),
                                      !.n = @ + 1,
                                      !.last = [op |-> "remove", dir |-> dir,
                                                component |-> component,
                                                outcome |-> "returned"]]
  /\ UNCHANGED InstFrame

\* FileSystemComponent.name setter: component.name = value
Rename ==
  /\ target = "Directory"
  /\ inst.n < DirOps
  /\ \E component \in Components, value \in ComponentNames \cup {""} :
       inst' = IF value = ""
                 THEN [inst EXCEPT !.n = @ + 1,
                                   !.last = [op |-> "name", dir |-> "",
                                             component |-> component,
                                             outcome |-> "ValueError"]]
                 ELSE [inst EXCEPT !.name[component] = value, !.n = @ + 1,
                                   !.renamed = TRUE,
                                   !.last = [op |-> "name", dir |-> "",
                                             component |-> component,
                                             outcome |-> "returned"]]
  /\ UNCHANGED InstFrame

DirNext == DirAdd \/ DirRemove \/ Rename

DirSpec == DirInit /\ [][DirNext]_vars

\* ------------------------------------- DecoratorChain timing and logging
\* A DecoratorChain (decorators_e010) to which with_timing and with_logging
\* add wrappers, the function build() made from them, and calls of that
\* function. What the wrapped function does in a call (return a value or
\* raise) is the caller's choice; the logging level only selects the text
\* printed. `printed` lists the lines a call wrote, by their tags.
WrapCalls == 2
MaxDecorators == 3

Returns(val) == [t |-> "return", v |-> val, exc |-> "none"]
Raises(exc) == [t |-> "raise", v |-> PyNone, exc |-> exc]

\* what the wrapped function may do in one call
FuncOutcomes == {Returns(PyInt(8)), Returns(PyNone),
                 Raises("ValueError"), Raises("KeyError")}

WrapNoCall == [inner |-> Returns(PyNone), outcome |-> Returns(PyNone),
               printed |-> <<>>]

\* DecoratorChain.__init__
WrapInit ==
  /\ target = "TimingLoggingChain"
  /\ NoDecorator
  /\ inst = [decorators |-> <<>>, built |-> FALSE, chained |-> <<>>,
             n |-> 0, last |-> WrapNoCall]

\* timing_decorator's wrapper, lines 101-108: the `finally` block prints the
\* elapsed time; the result is returned, an exception passes through
TimingWrapper(run) ==
  [outcome |-> run.outcome, printed |-> Append(run.printed, "TIMER")]

\* logging_decorator's wrapper, lines 121-135: the entry line, the call and
\* a `finally` block that formats `result`, a local which is bound only
\* when the call returned
LoggingWrapper(run) ==
  IF run.outcome.t = "return"
    THEN [outcome |-> run.outcome,
          printed |-> <<"Entering">> \o run.printed \o <<"Exiting">>]
    ELSE [outcome |-> Raises("UnboundLocalError"),
          printed |-> <<"Entering">> \o run.printed]

\* build, lines 191-194: the decorators are applied in the order they were
\* added, the first one innermost
RECURSIVE Chained(_, _)
Chained(decorators, run) ==
  IF decorators = <<>> THEN run
  ELSE Chained(Tail(decorators),
               IF Head(decorators) = "timing" THEN TimingWrapper(run)
               ELSE LoggingWrapper(run))

\* DecoratorChain.with_timing
WithTiming ==
  /\ target = "TimingLoggingChain"
  /\ Len(inst.decorators) < MaxDecorators
  /\ inst' = [inst EXCEPT !.decorators = Append(@, "timing")]
  /\ UNCHANGED InstFrame

\* DecoratorChain.with_logging
WithLogging ==
  /\ target = "TimingLoggingChain"
  /\ Len(inst.decorators) < MaxDecorators
  /\ inst' = [inst EXCEPT !.decorators = Append(@, "logging")]
  /\ UNCHANGED InstFrame

\* DecoratorChain.build: the function made from the decorators added so far
Build ==
  /\ target = "TimingLoggingChain"
  /\ ~inst.built \/ inst.chained # inst.decorators
  /\ inst' = [inst EXCEPT !.built = TRUE, !.chained = inst.decorators]
  /\ UNCHANGED InstFrame

\* one call of the function build() returned
ChainedCall ==
  /\ target = "TimingLoggingChain"
  /\ inst.built
  /\ inst.n < WrapCalls
  /\ \E inner \in FuncOutcomes :
       LET run == Chained(inst.chained, [outcome |-> inner, printed |-> <<>>])
       IN inst' = [inst EXCEPT
                     !.n = @ + 1,
                     !.last = [inner |-> inner, outcome |-> run.outcome,
                               printed |-> run.printed]]
  /\ UNCHANGED InstFrame

WrapNext == WithTiming \/ WithLogging \/ Build \/ ChainedCall

WrapSpec == WrapInit /\ [][WrapNext]_vars

\* ================================================================= claims
Hits == cache_hits_miss["Cache Hits"]
Misses == cache_hits_miss["Cache Misses"]
Capacity == IF target = "CacheDecorator" THEN max_cache_size ELSE chain_max_cache_size
Distinct(q) == \A i, j \in 1..Len(q) : i # j => q[i] # q[j]
\* a step in which a top-level call finishes (returns or raises)
CallCompletes == last'.op = "call" /\ last'.n = last.n + 1
\* the wrapped function raises when run with the arguments bound in key
RaisesOn(key) ==
  key # <<>> /\ BodyRaises(func, NewFrame(key, [i \in 1..Len(key) |-> key[i][2]]))

\* C1: with max_cache_size = N >= 1 a CacheDecorator never holds more than
\* N entries, whatever calls (hits, misses, raising misses, recursive
\* re-entrant calls) have been made.
C1_SizeWithinCapacity ==
  (target = "CacheDecorator" /\ max_cache_size >= 1)
    => Len(cache) <= max_cache_size

\* a recursive call that evicted has completed and the store is full
C1_Witness ==
  /\ target = "CacheDecorator" /\ func = "fibonacci" /\ max_cache_size >= 1
  /\ stack = <<>> /\ last.outcome = "miss"
  /\ last.invoked > 1 /\ last.evicted # {}
  /\ Len(cache) = max_cache_size

\* C2: when a call returned a result and the very next call binds to the
\* same effective values, that next call is a hit, returns the same result
\* and does not invoke the wrapped function (both wrappers, capacity >= 1).
C2_SecondCallIsHit ==
  [][(Capacity >= 1 /\ CallCompletes /\ last.op = "call"
        /\ last.outcome \in {"hit", "miss"} /\ last'.key = last.key)
      => (last'.outcome = "hit" /\ last'.result = last.result
            /\ last'.invoked = 0)]_vars

\* the chain wrapper answered a repeated call from its cache
C2_Witness ==
  /\ target = "DecoratorChain" /\ chain_max_cache_size >= 1
  /\ last.op = "call" /\ last.outcome = "hit"
  /\ last.prev_same /\ last.prev_outcome = "miss"
  /\ chain_cache_hit_miss["Cache Hits"] = 1

\* C3: once N+1 pairwise distinct keys have been inserted into an empty
\* CacheDecorator of capacity N >= 1, exactly N entries remain and the one
\* key missing is the key inserted first.
C3_OldestEvicted ==
  (target = "CacheDecorator" /\ max_cache_size >= 1
     /\ Len(ins_log) = max_cache_size + 1 /\ Distinct(ins_log))
    => /\ Len(cache) = max_cache_size
       /\ DictKeys(cache) = {ins_log[i] : i \in 2..Len(ins_log)}
       /\ ~DictHas(cache, ins_log[1])

\* three distinct keys went into a store of capacity two
C3_Witness ==
  /\ target = "CacheDecorator" /\ max_cache_size = 2
  /\ Len(ins_log) = 3 /\ Distinct(ins_log)
  /\ stack = <<>> /\ Len(cache) = 2

\* C4: calls that bind to the same effective argument values get the same
\* cache key: after a call, a next call with the same effective values is a
\* hit on the same key, and three calls that all bind alike (add(5),
\* add(5, b=10), add(a=5, b=10)) share one entry: one miss and two hits.
SameEffective(c, d) ==
  EffectiveArgs("add", c.args, c.kwargs) = EffectiveArgs("add", d.args, d.kwargs)

C4_SameBindingSameKey ==
  (script # <<>> /\ stack = <<>>)
    => /\ (total_calls >= 2
             /\ SameEffective(script[total_calls - 1], script[total_calls]))
          => (last.outcome = "hit" /\ last.prev_same)
       /\ (total_calls = Len(script)
             /\ \A i \in 1..Len(script) : SameEffective(script[1], script[i]))
          => (Hits = Len(script) - 1 /\ Misses = 1 /\ Len(cache) = 1)

\* add(5), add(5, b=10) and add(a=5, b=10) have been called in this order
C4_Witness ==
  /\ Len(script) = 3 /\ total_calls = 3 /\ stack = <<>>
  /\ script[1].args = <<PyInt(5)>> /\ DOMAIN script[1].kwargs = {}
  /\ script[2].args = <<PyInt(5)>> /\ DOMAIN script[2].kwargs = {"b"}
  /\ script[2].kwargs["b"] = PyInt(10)
  /\ script[3].args = <<>> /\ DOMAIN script[3].kwargs = {"a", "b"}
  /\ script[3].kwargs["a"] = PyInt(5) /\ script[3].kwargs["b"] = PyInt(10)
  /\ Hits = 2 /\ Misses = 1 /\ Len(cache) = 1

\* C5: when the wrapped function raises during a CacheDecorator miss, the
\* caller gets that exception, the function ran once, the store is as it
\* was when the call began, and the next call with the same key misses
\* and runs the function again.
C5_RaiseLeavesStore ==
  [][(target = "CacheDecorator" /\ CallCompletes /\ RaisesOn(last'.key))
      => /\ last'.outcome = "raise" /\ last'.exc = "TypeError"
         /\ last'.invoked = 1
         /\ cache' = cur.entry_cache
         /\ ~DictHas(cache', last'.key)]_vars

\* the same raising call was made twice against a full store
C5_Witness ==
  /\ target = "CacheDecorator" /\ max_cache_size >= 1
  /\ last.outcome = "raise" /\ last.exc = "TypeError" /\ last.invoked = 1
  /\ last.prev_same /\ last.prev_outcome = "raise"
  /\ Len(cache) = max_cache_size
  /\ Misses >= 3

\* C6: when the wrapped function raises during a miss of the chain's
\* caching wrapper, the caller gets that exception and the store is
\* unchanged.
C6_ChainRaiseLeavesStore ==
  [][(target = "DecoratorChain" /\ CallCompletes /\ RaisesOn(last'.key))
      => /\ last'.outcome = "raise" /\ last'.exc = "TypeError"
         /\ chain_cache' = chain_cache]_vars

\* C7: with max_cache_size <= 0 a CacheDecorator stores nothing and every
\* call whose function returns is a miss that hands the result back.
C7_NonPositiveCapacityNoCaching ==
  (target = "CacheDecorator" /\ max_cache_size <= 0)
    => /\ cache = <<>>
       /\ (stack = <<>> /\ last.op = "call" /\ last.key # <<>>
             /\ ~RaisesOn(last.key))
          => last.outcome = "miss"

\* C8 as stated: hits + misses equals the number of calls made to the
\* wrapper since construction or the last clear_cache, and total_requests
\* reports that number.
C8_CountersMatchCalls ==
  target = "CacheDecorator"
    => /\ Hits + Misses = calls
       /\ GetCacheStats.total_requests = calls

\* C8 amended: hits + misses equals the number of calls since construction
\* or the last clear_cache that got as far as the lookup (calls that raise
\* while the key is derived count as neither), and total_requests reports
\* that number.
C8_CountersMatchKeyedCalls ==
  target = "CacheDecorator"
    => /\ Hits + Misses = keyed
       /\ GetCacheStats.total_requests = keyed

\* hits and misses were counted, a call failed to bind, a call is running
C8_Witness ==
  /\ target = "CacheDecorator"
  /\ keyed < calls /\ Hits >= 1 /\ Misses >= 2
  /\ stack # <<>>

\* C9: clear_cache leaves the store empty and both counters at zero, and
\* the next call with a key that was stored before the clear is a miss
\* that runs the wrapped function.
C9_ClearResets ==
  target = "CacheDecorator"
    => /\ (last.op = "clear" /\ stack = <<>>)
          => (cache = <<>> /\ Hits = 0 /\ Misses = 0)
       /\ (last.op = "call" /\ last.prev_outcome = "clear" /\ last.prev_same)
          => (last.outcome = "miss" /\ last.invoked >= 1)

\* a key cached before a clear was called again right after it
C9_Witness ==
  /\ target = "CacheDecorator"
  /\ last.op = "call" /\ last.prev_outcome = "clear" /\ last.prev_same
  /\ last.outcome = "miss" /\ Misses = 1 /\ Hits = 0

\* C10: eviction is first-in-first-out: a hit leaves the store and its
\* order untouched, and whenever an entry is evicted it is the one that was
\* inserted earliest, hit or not.
C10_FifoNotLru ==
  [][target = "CacheDecorator"
      => /\ (cache_hits_miss'["Cache Hits"] = Hits + 1) => cache' = cache
         /\ \A k \in DictKeys(cache) \ DictKeys(cache') :
              cache' = <<>> \/ k = fifo[1]]_vars

\* the entry hit by the previous call was evicted by this one
C10_Witness ==
  /\ target = "CacheDecorator" /\ max_cache_size >= 2
  /\ last.outcome = "miss" /\ last.evicted_last_hit
  /\ Len(cache) = max_cache_size

\* the call square(n) and the key it is stored under
SquareCall(n) == [args |-> <<PyInt(n)>>, kwargs |-> <<>>]
SquareKey(n) == <<<<"x", PyInt(n)>>>>
\* key was stored since the store was last empty and is stored no longer
WasEvicted(key) ==
  /\ \E i \in 1..Len(ins_log) : KeyEq(ins_log[i], key)
  /\ ~DictHas(cache, key)

\* the calls square(2), square(2), square(3), square(4), square(2) against
\* capacity 2 give miss, hit, miss, miss, miss; the store holds 3 and 4
\* after the fourth call, 4 and 2 after the fifth
SquareExample ==
  (/\ func = "square" /\ max_cache_size = 2 /\ stack = <<>>
   /\ Len(script) >= 5 /\ total_calls \in 1..5
   /\ SubSeq(script, 1, 5) = <<SquareCall(2), SquareCall(2), SquareCall(3),
                               SquareCall(4), SquareCall(2)>>)
    => /\ last.outcome = <<"miss", "hit", "miss", "miss", "miss">>[total_calls]
       /\ last.result = <<PyInt(4), PyInt(4), PyInt(9), PyInt(16),
                          PyInt(4)>>[total_calls]
       /\ total_calls = 2 => Misses = 1
       /\ total_calls = 4 => KeySeq(cache) = <<SquareKey(3), SquareKey(4)>>
       /\ total_calls = 5 => KeySeq(cache) = <<SquareKey(4), SquareKey(2)>>

\* C11: a call with a key that was evicted is a miss: the function runs
\* again, its result goes back in as the newest entry, and with the store
\* full the entry that was oldest at that moment is evicted for it; with
\* capacity 2 the calls 2, 2, 3, 4, 2 give miss, hit, miss, miss, miss and
\* the store holds {3, 4} after the fourth call and {4, 2} after the fifth.
C11_EvictedKeyMissesAgain ==
  [][/\ (target = "CacheDecorator" /\ max_cache_size >= 1 /\ CallCompletes
           /\ last'.key # <<>> /\ WasEvicted(last'.key))
        => /\ last'.outcome = "miss" /\ last'.invoked = 1
           /\ cache' # <<>>
           /\ cache'[Len(cache')] = [k |-> last'.key, v |-> last'.result]
           /\ Len(cache) >= max_cache_size
                => /\ last'.evicted = {cache[1].k}
                   /\ KeySeq(cache') = Tail(KeySeq(cache)) \o <<last'.key>>
     /\ SquareExample']_vars

\* the five calls of the example were made against capacity 2
C11_Witness ==
  /\ func = "square" /\ max_cache_size = 2 /\ stack = <<>>
  /\ total_calls = 5
  /\ SubSeq(script, 1, 5) = <<SquareCall(2), SquareCall(2), SquareCall(3),
                              SquareCall(4), SquareCall(2)>>
  /\ last.outcome = "miss" /\ last.evicted = {SquareKey(3)}
  /\ KeySeq(cache) = <<SquareKey(4), SquareKey(2)>>
  /\ Hits = 1 /\ Misses = 4

\* the effective arguments of the i-th scripted call, and the function's
\* own result for them
ArgsOf(i) == EffectiveArgs(func, script[i].args, script[i].kwargs)
ResultOf(i) == BodyResult(func, NewFrame(<<>>, ArgsOf(i)))
KeyArgs(key) == [i \in 1..Len(key) |-> key[i][2]]
EqualArgs(a, b) == Len(a) = Len(b) /\ \A i \in 1..Len(a) : PyEq(a[i], b[i])
\* the store holds exactly the entries of calls (n - m + 1)..n, in order
HoldsLastCalls(n, m) ==
  /\ Len(cache) = m
  /\ \A j \in 1..m : /\ KeyArgs(cache[j].k) = ArgsOf(n - m + j)
                      /\ cache[j].v = ResultOf(n - m + j)
MinOf(a, b) == IF a <= b THEN a ELSE b

TooMany(f, c) == Len(c.args) > Len(Params(f))
UnknownKeyword(f, c) ==
  \E p \in DOMAIN c.kwargs : \A i \in 1..Len(Params(f)) : Params(f)[i] # p
DuplicateKeyword(f, c) ==
  \E i \in 1..Len(Params(f)) : i <= Len(c.args) /\ Params(f)[i] \in DOMAIN c.kwargs
TooFew(f, c) ==
  \E i \in 1..Len(Params(f)) :
     /\ i > Len(c.args)
     /\ Params(f)[i] \notin DOMAIN c.kwargs
     /\ Params(f)[i] \notin DOMAIN Defaults(f)
Unbindable(f, c) ==
  TooMany(f, c) \/ UnknownKeyword(f, c) \/ DuplicateKeyword(f, c) \/ TooFew(f, c)

\* C13: a CacheDecorator call whose arguments do not bind (too many, too
\* few, an unknown keyword, a keyword for a parameter already given) raises
\* the binding TypeError without running the function and leaves the store,
\* its order and both counters as they were.
C13_UnbindableRaisesFirst ==
  [][(script # <<>> /\ target = "CacheDecorator" /\ CallCompletes
        /\ Unbindable(func, script[last'.n]))
      => /\ last'.outcome = "raise" /\ last'.exc = "TypeError"
         /\ last'.invoked = 0 /\ last'.key = <<>>
         /\ stack = <<>> /\ stack' = <<>>
         /\ cache' = cache
         /\ cache_hits_miss' = cache_hits_miss]_vars

\* after a miss, a call that gives `a` both positionally and by keyword
C13_Witness ==
  /\ script # <<>> /\ func = "add" /\ total_calls = 2 /\ stack = <<>>
  /\ DuplicateKeyword(func, script[2])
  /\ ~TooMany(func, script[2]) /\ ~UnknownKeyword(func, script[2])
  /\ last.outcome = "raise" /\ last.exc = "TypeError" /\ last.invoked = 0
  /\ Len(cache) = 1 /\ Misses = 1 /\ Hits = 0

\* C14: a CacheDecorator hit hands back the stored result without running
\* the function, adds exactly one to the hit counter and leaves the miss
\* counter and the store (contents and order) untouched; this holds for
\* calls from outside and for the function's own recursive calls.
C14_HitOnlyCounts ==
  [][target = "CacheDecorator"
      => /\ (CallCompletes /\ stack = <<>> /\ last'.key # <<>>
               /\ DictHas(cache, last'.key))
            => /\ last'.outcome = "hit" /\ last'.invoked = 0
               /\ \E i \in 1..Len(cache) :
                    /\ KeyEq(cache[i].k, last'.key)
                    /\ cache[i].v = last'.result
               /\ cache_hits_miss'["Cache Hits"] = Hits + 1
         /\ (cache_hits_miss'["Cache Hits"] # Hits)
            => \/ cache_hits_miss'["Cache Hits"] = Hits + 1
               \/ last'.op = "clear"
         /\ (cache_hits_miss'["Cache Hits"] = Hits + 1)
            => /\ cache_hits_miss'["Cache Misses"] = Misses
               /\ cache' = cache
               /\ Len(stack') = Len(stack)
               /\ cur'.invoked = cur.invoked]_vars

\* the newer of two stored entries answered a call
C14_Witness ==
  /\ target = "CacheDecorator" /\ stack = <<>>
  /\ last.op = "call" /\ last.outcome = "hit" /\ last.invoked = 0
  /\ Len(cache) = 2 /\ KeyEq(cache[2].k, last.key)
  /\ cache[2].v = last.result /\ cache[1].v # last.result
  /\ Hits = 1 /\ Misses = 2

\* C15: the store is not safe for concurrent callers: when two threads'
\* misses for different keys interleave between the capacity check and the
\* insertion, the store ends up holding more than max_cache_size entries;
\* it exceeds the capacity only after such an overlap, and with two
\* threads by one entry at most.
C15_OverlapOverfills ==
  thr # Absent
    => /\ Len(cache) <= max_cache_size + 1
       /\ Len(cache) > max_cache_size => thr.overlap

\* both threads are back from misses for different keys and the store
\* holds one entry more than its capacity
C15_Witness ==
  /\ thr # Absent
  /\ \A t \in Threads : thr.pc[t] = "idle" /\ thr.exc[t] = "none"
  /\ Len(cache) = max_cache_size + 1
  /\ Distinct(KeySeq(cache))
  /\ thr.overlap

\* a step in which a call of the DataPipelineStep wrapper ends
StepCompletes == step # Absent /\ step'.n = step.n + 1
\* the wrapped function ran in the call that just ended and never returned
StepAlwaysRaised == step'.last.key # <<>> /\ step'.last.outcome \notin {"hit", "returned"}
\* the metrics m with d added to the named counter
Plus(m, name, d) == [m EXCEPT ![name] = @ + d]

C17_SucceedsAfterFailures ==
  [][(StepCompletes /\ step'.last.outcome = "returned")
      => LET k == step'.last.fails IN
         /\ k < step.max_retries
         /\ step'.last.invoked = k + 1
         /\ step'.last.result = BodyResult(func, NewFrame(<<>>, KeyArgs(step'.last.key)))
         /\ DictHas(step'.cache, step'.last.key)
         /\ DictGet(step'.cache, step'.last.key) = step'.last.result
         /\ Len(step'.cache) = Len(step'.before.cache) + 1
         /\ step'.metrics = Plus(Plus(Plus(step'.before.metrics, "calls", 1),
                                       "successes", 1), "failures", k)]_vars

\* as in the test: two failures, then the third attempt returned
C17_Witness ==
  /\ step # Absent /\ step.pc = "idle" /\ step.max_retries = 3
  /\ step.last.outcome = "returned" /\ step.last.fails = 2
  /\ step.last.invoked = 3
  /\ step.metrics = [calls |-> 1, successes |-> 1, failures |-> 2,
                      cached_hits |-> 0]
  /\ Len(step.cache) = 1

\* C18: a DataPipelineStep call whose key is cached returns the cached
\* result without invoking the function, adds one each to calls,
\* cached_hits and successes, and leaves failures and the cache as they
\* were.
C18_StepCacheHit ==
  [][(StepCompletes /\ step.pc = "idle" /\ step'.last.key # <<>>
        /\ DictHas(step.cache, step'.last.key))
      => /\ step'.last.outcome = "hit"
         /\ step'.last.invoked = 0
         /\ \E i \in 1..Len(step.cache) :
              /\ KeyEq(step.cache[i].k, step'.last.key)
              /\ step.cache[i].v = step'.last.result
         /\ step'.metrics = Plus(Plus(Plus(step.metrics, "calls", 1),
                                       "cached_hits", 1), "successes", 1)
         /\ step'.metrics.failures = step.metrics.failures
         /\ step'.cache = step.cache]_vars

\* a key cached after one failed attempt was asked for again
C18_Witness ==
  /\ step # Absent /\ step.pc = "idle"
  /\ step.last.outcome = "hit" /\ step.last.invoked = 0
  /\ step.metrics = [calls |-> 2, successes |-> 2, failures |-> 1,
                      cached_hits |-> 1]
  /\ Len(step.cache) = 1 /\ step.cache[1].v = step.last.result

\* C19: a function wrapped by RetryDecorator that keeps raising a
\* retryable exception is executed max_retries + 1 times within one call
\* (the first attempt plus max_retries retries) before the exception
\* reaches the caller.
C19_RetriesAfterFirstAttempt ==
  [][(retry # Absent /\ retry'.n = retry.n + 1
        /\ retry'.last.outcome = "retryable")
      => retry'.last.executions = retry.max_retries + 1]_vars

\* q without the repetitions of elements that occurred earlier in it
RECURSIVE Dedup(_)
Dedup(q) ==
  IF q = <<>> THEN <<>>
  ELSE LET r == Dedup(SubSeq(q, 1, Len(q) - 1))
       IN IF InSeq(r, q[Len(q)]) THEN r ELSE Append(r, q[Len(q)])

\* what a call runs when every hook registered so far runs once, in
\* registration order, around the function
ExpectedLog ==
  Tagged("before", Dedup(hooks.reg_before)) \o <<<<"func", func>>>>
    \o Tagged("after", Dedup(hooks.reg_after))

RECURSIVE SumOver(_, _)
SumOver(accounts, numbers) ==
  IF numbers = {} THEN 0
  ELSE LET k == CHOOSE x \in numbers : TRUE
       IN accounts[k].balance + SumOver(accounts, numbers \ {k})
\* the sum of the balances of the accounts of the bank
TotalBalance(accounts) == SumOver(accounts, DOMAIN accounts)
\* this step is a call of op on the bank
BankCalls(op) == inst'.n = inst.n + 1 /\ inst'.last.op = op
\* the conditions under which the claim expects a transfer to fail
TransferMustFail(from, to, amount) ==
  \/ from \notin DOMAIN inst.accounts
  \/ to \notin DOMAIN inst.accounts
  \/ amount <= 0
  \/ /\ inst.accounts[from].type = "savings"
     /\ inst.accounts[from].balance - amount < inst.accounts[from].min_balance
  \/ /\ inst.accounts[from].type = "checking"
     /\ inst.accounts[from].balance - amount < -inst.accounts[from].overdraft_limit
\* the lowest balance the account's rule allows
Floor(acc) == IF acc.type = "savings" THEN acc.min_balance ELSE -acc.overdraft_limit

\* C21: a successful transfer takes the amount from the source and adds it
\* to the destination, changes no other balance and keeps the sum of all
\* balances; a transfer from an account to itself leaves its balance as it
\* was.
C21_TransferMovesAmount ==
  [][(BankCalls("transfer") /\ inst'.last.ok) =>
       LET from == inst'.last.from
           to == inst'.last.to
           amount == inst'.last.amount
           old == inst.accounts
           new == inst'.accounts
       IN /\ DOMAIN new = DOMAIN old
          /\ from \in DOMAIN old /\ to \in DOMAIN old
          /\ TotalBalance(new) = TotalBalance(old)
          /\ \A k \in DOMAIN old \ {from, to} : new[k].balance = old[k].balance
          /\ IF from = to
               THEN new[from].balance = old[from].balance
               ELSE /\ new[from].balance = old[from].balance - amount
                    /\ new[to].balance = old[to].balance + amount]_vars

\* two different accounts exist and the last call moved money between them
C21_Witness ==
  /\ target = "Bank"
  /\ inst.last.op = "transfer" /\ inst.last.ok
  /\ inst.last.from # inst.last.to
  /\ Len(inst.accounts[inst.last.to].transaction_history) > 0

\* C22: a transfer fails exactly when an account is unknown, the amount is
\* not positive or the source's rule refuses the withdrawal; a failed
\* transfer returns False with a message and leaves every balance and every
\* transaction history as it was.
C22_FailedTransferChangesNothing ==
  [][BankCalls("transfer") =>
       /\ inst'.last.ok = ~TransferMustFail(inst'.last.from, inst'.last.to,
                                            inst'.last.amount)
       /\ ~inst'.last.ok => /\ inst'.accounts = inst.accounts
                            /\ inst'.last.msg # ""]_vars

\* a transfer between two existing accounts was refused by the source's rule
C22_Witness ==
  /\ target = "Bank"
  /\ inst.last.op = "transfer" /\ ~inst.last.ok
  /\ inst.last.from \in DOMAIN inst.accounts
  /\ inst.last.to \in DOMAIN inst.accounts
  /\ inst.last.amount > 0

\* C23: after a successful withdrawal, direct or through a transfer, the
\* source is not below its floor (min_balance for savings, -overdraft_limit
\* for checking); a refused withdrawal returns False with a message and
\* leaves balances and histories as they were.
C23_WithdrawRespectsFloor ==
  [][(BankCalls("withdraw") \/ BankCalls("transfer")) =>
       /\ inst'.last.ok =>
            inst'.accounts[inst'.last.from].balance
              >= Floor(inst'.accounts[inst'.last.from])
       /\ (BankCalls("withdraw") /\ ~inst'.last.ok) =>
            /\ inst'.accounts = inst.accounts
            /\ inst'.last.msg # ""]_vars

\* a withdrawal took a checking account below zero, down to its limit
C23_Witness ==
  /\ target = "Bank"
  /\ inst.last.op \in {"withdraw", "transfer"} /\ inst.last.ok
  /\ inst.accounts[inst.last.from].type = "checking"
  /\ inst.accounts[inst.last.from].balance = -LimitKwarg


\* --------------------------------------------------------- Library claims
\* this step is a call of borrow_book
BorrowCalled == inst'.n = inst.n + 1 /\ inst'.last.op = "borrow_book"
\* a book with this isbn / a user with this id is in the library
HasBook(isbn) == \E i \in 1..Len(inst.books) : IsbnOf(inst.books[i]) = isbn
HasUser(user_id) == \E i \in 1..Len(inst.users) : UserIdOf(inst.users[i]) = user_id
\* no object was appended twice
AddedOnce(list) == \A i, j \in 1..Len(list) : list[i] = list[j] => i = j

\* C24: borrow_book answers 'Book not found' whenever no book has the isbn,
\* else 'User not found' whenever no user has the id, and 'Book is not
\* available' only when both exist; every call that does not succeed leaves
\* the book list, the user list and every Book and User as they were.
C24_BorrowChecksInOrder ==
  [][BorrowCalled =>
       LET isbn == inst'.last.isbn
           user_id == inst'.last.user_id
           msg == inst'.last.msg
       IN /\ ~HasBook(isbn) => msg = "Book not found"
          /\ (HasBook(isbn) /\ ~HasUser(user_id)) => msg = "User not found"
          /\ msg = "Book is not available" => (HasBook(isbn) /\ HasUser(user_id))
          /\ msg # "Book borrowed successfully" =>
               /\ inst'.books = inst.books /\ inst'.users = inst.users
               /\ inst'.book = inst.book /\ inst'.user = inst.user]_vars

\* neither the book nor the user exists and the answer names the book
C24_Witness ==
  /\ target = "Library"
  /\ inst.last.op = "borrow_book" /\ inst.last.msg = "Book not found"
  /\ \A i \in 1..Len(inst.users) : UserIdOf(inst.users[i]) # inst.last.user_id
  /\ inst.users # <<>> /\ inst.books # <<>>

\* C25: when no Book and no User was added twice, available_books +
\* borrowed_books = total_books, borrowed_books is the number of successful
\* borrow_book calls, and users_with_books is the number of registered users
\* holding at least one book.
C25_StatisticsConsistent ==
  (target = "Library" /\ AddedOnce(inst.books) /\ AddedOnce(inst.users)) =>
    LET stats == GetStatistics(inst)
    IN /\ stats.available_books + stats.borrowed_books = stats.total_books
       /\ stats.borrowed_books = inst.borrowed
       /\ stats.users_with_books =
            Cardinality({u \in UserObjects :
                           /\ \E i \in 1..Len(inst.users) : inst.users[i] = u
                           /\ inst.user[u].books_borrowed # <<>>})

\* one user holds two books, each added once
C25_Witness ==
  /\ target = "Library"
  /\ AddedOnce(inst.books) /\ AddedOnce(inst.users)
  /\ inst.borrowed = 2
  /\ GetStatistics(inst).users_with_books = 1


\* ---------------------------------------------------------- Course claims
\* this step called Course.add_student, directly or inside Student.enroll,
\* and the call returned False
AddWasRejected == inst'.n = inst.n + 1 /\ inst'.last.add = "rejected"
\* this step called Course.add_student and the call returned True
AddWasAccepted == inst'.n = inst.n + 1 /\ inst'.last.add = "accepted"
\* the course is full or already has the student
FullOrEnrolled(c, s) ==
  \/ Len(inst.students[c]) >= inst.max_capacity[c]
  \/ \E i \in 1..Len(inst.students[c]) : inst.students[c][i] = s
\* a rejected add_student leaves every roster as it was, and add_student
\* rejects exactly when the course is full or has the student
RejectedAddKeepsRoster ==
  /\ AddWasRejected =>
       /\ FullOrEnrolled(inst'.last.course, inst'.last.student)
       /\ ~inst'.last.ok
       /\ inst'.students = inst.students
       /\ inst'.completed_students = inst.completed_students
  /\ AddWasAccepted => ~FullOrEnrolled(inst'.last.course, inst'.last.student)

\* C26, as stated: the number of enrolled students of a course never exceeds
\* its max_capacity, whatever the course was constructed with, and a rejected
\* add_student returns False and leaves the roster unchanged.
C26_NeverAboveCapacity ==
  /\ [](target = "Course" =>
          \A c \in Courses : Len(inst.students[c]) <= inst.max_capacity[c])
  /\ [][RejectedAddKeepsRoster]_vars

\* C26, amended: for a course constructed with max_capacity >= 0 the number
\* of enrolled students never exceeds max_capacity, and a rejected
\* add_student returns False and leaves the roster unchanged.
C26_NeverAboveNonNegativeCapacity ==
  /\ [](target = "Course" =>
          \A c \in Courses :
            inst.max_capacity[c] >= 0 =>
              Len(inst.students[c]) <= inst.max_capacity[c])
  /\ [][RejectedAddKeepsRoster]_vars

\* a full course refused a student it does not have
C26_Witness ==
  /\ target = "Course"
  /\ inst.last.add = "rejected"
  /\ inst.max_capacity[inst.last.course] >= 1
  /\ Len(inst.students[inst.last.course]) = inst.max_capacity[inst.last.course]
  /\ \A i \in 1..Len(inst.students[inst.last.course]) :
       inst.students[inst.last.course][i] # inst.last.student

\* C27: while only Student.enroll, unenroll and complete_course were used, a
\* student is in course.students exactly when the course is in the
\* student's enrolled_courses, and in course.completed_students exactly when
\* the course is in the student's completed_courses.
C27_BothSidesAgree ==
  (target = "Course" /\ ~inst.direct) =>
    \A c \in Courses, s \in Students :
      /\ (\E i \in 1..Len(inst.students[c]) : inst.students[c][i] = s)
           <=> (\E j \in 1..Len(inst.enrolled_courses[s]) :
                  inst.enrolled_courses[s][j] = c)
      /\ (\E i \in 1..Len(inst.completed_students[c]) :
            inst.completed_students[c][i] = s)
           <=> (\E j \in 1..Len(inst.completed_courses[s]) :
                  inst.completed_courses[s][j] = c)

\* a student completed a course, enrolled in it again and left it
C27_Witness ==
  /\ target = "Course" /\ ~inst.direct
  /\ inst.last.op = "unenroll" /\ inst.last.ok
  /\ Len(inst.completed_courses[inst.last.student]) > 0
  /\ inst.completed_courses[inst.last.student][1] = inst.last.course


\* ------------------------------------------------- SecureMessenger claims
\* this step is a call of op on the messenger
MessengerCalls(op) == inst'.n = inst.n + 1 /\ inst'.last.op = op

\* C28: while no login call was given the correct password, add_message and
\* get_messages return their not-logged-in error and the message list stays
\* empty; a login that fails does not authenticate; every login call adds
\* one to the attempts counter.
C28_LockedUntilCorrectLogin ==
  [][/\ (MessengerCalls("add_message") /\ ~inst'.correct) =>
          /\ inst'.last.ret = "Error: You must be logged in to add messages"
          /\ inst'.messages = <<>>
     /\ (MessengerCalls("get_messages") /\ ~inst'.correct) =>
          /\ inst'.last.ret = "Error: You must be logged in to view messages"
          /\ inst'.messages = <<>>
     /\ MessengerCalls("login") =>
          /\ inst'.login_attempts = inst.login_attempts + 1
          /\ inst'.messages = inst.messages
          /\ inst'.last.ret # "Login successful" =>
               inst'.is_logged_in = inst.is_logged_in
          /\ ~inst'.correct => ~inst'.is_logged_in]_vars

\* after two wrong passwords a message was refused
C28_Witness ==
  /\ target = "SecureMessenger"
  /\ ~inst.correct
  /\ inst.login_attempts = 2
  /\ inst.last.op = "add_message"
  /\ inst.last.ret = "Error: You must be logged in to add messages"


\* ---------------------------------------------- DatabaseConnection claims
\* C29: every DatabaseConnection() call returns the one object ever created,
\* and a call made when the object already exists leaves its connected flag
\* as it was (initialisation only affects the object on first creation).
C29_LaterConstructionKeepsState ==
  (target = "DatabaseConnection" /\ inst.last.op = "DatabaseConnection") =>
    /\ inst.created = 1
    /\ inst.last.existed => inst.connected = inst.last.was_connected


\* ----------------------------------------------------- BankAccount claims
\* this step is a call of op on the account
AccountCalls(op) == inst'.n = inst.n + 1 /\ inst'.last.op = op
\* the calls the claim lists as rejected
MustBeRejected ==
  \/ AccountCalls("deposit") /\ inst'.last.amount < 0
  \/ AccountCalls("withdraw") /\ inst'.last.amount < 0
  \/ AccountCalls("withdraw") /\ inst'.last.amount > inst.balance
  \/ AccountCalls("balance") /\ inst'.last.amount < 0

\* C30: with interest_rate >= 0 the balance is never negative, before or
\* after any deposit, withdraw, balance assignment or apply_interest, and a
\* negative deposit, a negative withdrawal, a withdrawal above the balance
\* and a negative balance assignment are rejected and leave the balance as
\* it was.
C30_BalanceNeverNegative ==
  [][(target = "BankAccount" /\ inst.interest_rate >= 0 /\ inst'.n = inst.n + 1) =>
       /\ inst.balance >= 0
       /\ inst'.balance >= 0
       /\ MustBeRejected => (~inst'.last.ok /\ inst'.balance = inst.balance)
       /\ ~inst'.last.ok => (MustBeRejected /\ inst'.balance = inst.balance)]_vars

\* with a positive rate, a withdrawal of the whole balance went through
C30_Witness ==
  /\ target = "BankAccount"
  /\ inst.interest_rate = 1
  /\ inst.last.op = "withdraw" /\ inst.last.ok
  /\ inst.last.amount = 2
  /\ inst.balance = 0


\* ----------------------------------------------------- CallCounter claims
\* this step is a call of the counted function
CounterCalled == inst'.n = inst.n + 1 /\ inst'.last.op = "call"
\* calls up to the M-th execute the function, later ones raise RuntimeError
\* without executing it, and reset() starts the count again
LimitEnforced ==
  /\ (CounterCalled /\ inst.max_calls # PyNone /\ inst.since >= inst.max_calls.v) =>
       /\ inst'.last.outcome = "RuntimeError"
       /\ inst'.executed = inst.executed
  /\ (CounterCalled /\ inst.max_calls # PyNone /\ inst.since < inst.max_calls.v) =>
       /\ inst'.last.outcome # "RuntimeError"
       /\ inst'.executed = inst.executed + 1
  /\ (inst'.n = inst.n + 1 /\ inst'.last.op = "reset") =>
       (inst'.since = 0 /\ inst'.executed = 0)

\* C31, as stated: with max_calls = M, whatever number M is, the function is
\* executed at most M times since construction or the last reset(), calls
\* beyond the M-th raise RuntimeError without executing it, and reset()
\* makes M further executions possible.
C31_AtMostMaxCalls ==
  /\ []((target = "CallCounter" /\ inst.max_calls # PyNone) =>
          inst.executed <= inst.max_calls.v)
  /\ [][LimitEnforced]_vars

\* C31, amended: the same for M >= 0.
C31_AtMostNonNegativeMaxCalls ==
  /\ []((target = "CallCounter" /\ inst.max_calls # PyNone /\ inst.max_calls.v >= 0) =>
          inst.executed <= inst.max_calls.v)
  /\ [][LimitEnforced]_vars

\* after a reset the function ran M = 2 more times and the next call was
\* refused
C31_Witness ==
  /\ target = "CallCounter"
  /\ inst.max_calls = PyInt(2)
  /\ inst.executed = 2 /\ inst.since = 3 /\ inst.n = 5
  /\ inst.last.outcome = "RuntimeError"


\* ------------------------------------------------------- Directory claims
\* some child of dir carries this name
NamePresent(dir, name) ==
  \E i \in 1..Len(inst.children[dir]) : inst.name[inst.children[dir][i]] = name
\* this step is a call of op on a directory
DirCalls(op) == inst'.n = inst.n + 1 /\ inst'.last.op = op

\* C32: while only add and remove were called, no two children of a
\* directory have the same name; add raises ValueError exactly when a child
\* already has the component's name and remove exactly when none has, and
\* both then leave the children unchanged.
C32_ChildNamesUnique ==
  [][(target = "Directory" /\ ~inst'.renamed) =>
       /\ \A dir \in Dirs :
            \A i, j \in 1..Len(inst'.children[dir]) :
              inst'.name[inst'.children[dir][i]] = inst'.name[inst'.children[dir][j]]
                => i = j
       /\ DirCalls("add") =>
            LET present == NamePresent(inst'.last.dir, inst.name[inst'.last.component])
            IN /\ (inst'.last.outcome = "ValueError") = present
               /\ present => inst'.children = inst.children
       /\ DirCalls("remove") =>
            LET present == NamePresent(inst'.last.dir, inst.name[inst'.last.component])
            IN /\ (inst'.last.outcome = "ValueError") = ~present
               /\ ~present => inst'.children = inst.children]_vars

\* a second File object with the name of an existing child was refused
C32_Witness ==
  /\ target = "Directory" /\ ~inst.renamed
  /\ inst.last.op = "add" /\ inst.last.outcome = "ValueError"
  /\ \A i \in 1..Len(inst.children[inst.last.dir]) :
       inst.children[inst.last.dir][i] # inst.last.component
  /\ Len(inst.children[inst.last.dir]) = 2


\* --------------------------------------------------- store overwrite claim
\* this step stores the result of the running function under key
Stores(key) ==
  /\ stack # <<>>
  /\ Len(stack') = Len(stack) - 1
  /\ key = stack[Len(stack)].key

\* C33: a store evicts only when the insertion would make the store larger
\* than max_cache_size, and then exactly the oldest entry; a store under a
\* key that is already present overwrites the value, evicts nothing and
\* leaves every key at its insertion position.
C33_OverwriteEvictsNothing ==
  [][\A key \in {stack[i].key : i \in 1..Len(stack)} :
       (target = "CacheDecorator" /\ Stores(key)) =>
         IF DictHas(cache, key)
           THEN KeySeq(cache') = KeySeq(cache)
           ELSE IF Len(cache) + 1 > max_cache_size
             THEN KeySeq(cache') = Append(Tail(KeySeq(cache)), key)
             ELSE KeySeq(cache') = Append(KeySeq(cache), key)]_vars


\* -------------------------------------------------- pipeline step metrics
\* between calls the metrics add up, and the cache changes only in a step
\* in which the function returned, by the entry for that call's key
MetricsAddUp ==
  /\ step'.metrics.calls = step'.metrics.successes + step'.hist.runtime_errors
  /\ step'.metrics.cached_hits <= step'.metrics.successes
  /\ step'.metrics.failures <= step'.max_retries * step'.hist.misses
CachedOnlyOnSuccess ==
  step'.cache # step.cache =>
    /\ step'.last.outcome = "returned"
    /\ step'.metrics.successes = step.metrics.successes + 1
    /\ step'.cache = DictSet(step.cache, step.key, step'.last.result)

RECURSIVE Recorded(_)
Recorded(history) ==
  IF history = <<>> THEN 0
  ELSE (IF Head(history)[1] = "withdrawal" THEN -Head(history)[2]
        ELSE Head(history)[2]) + Recorded(Tail(history))
\* how many transactions the step appended to the account numbered k
Appended(k) ==
  IF k \in DOMAIN inst.accounts
    THEN Len(inst'.accounts[k].transaction_history)
           - Len(inst.accounts[k].transaction_history)
    ELSE 0

\* C35: every account's balance is its initial balance plus the recorded
\* deposits and interest minus the recorded withdrawals; a successful
\* deposit, withdraw or apply_interest appends exactly one Transaction to
\* its account and none elsewhere, a failed one appends none (a successful
\* transfer is one withdraw and one deposit).
C35_BalanceMatchesHistory ==
  [][target = "Bank" =>
       /\ \A k \in DOMAIN inst'.accounts :
            inst'.accounts[k].balance =
              inst'.accounts[k].initial_balance
                + Recorded(inst'.accounts[k].transaction_history)
       /\ (BankCalls("deposit") \/ BankCalls("withdraw") \/ BankCalls("apply_interest")) =>
            LET k == IF inst'.last.op = "deposit" THEN inst'.last.to
                     ELSE inst'.last.from
            IN /\ Appended(k) = IF inst'.last.ok THEN 1 ELSE 0
               /\ \A j \in DOMAIN inst.accounts \ {k} : Appended(j) = 0
       /\ BankCalls("transfer") =>
            /\ ~inst'.last.ok => \A j \in DOMAIN inst.accounts : Appended(j) = 0
            /\ inst'.last.ok =>
                 /\ \A j \in DOMAIN inst.accounts \ {inst'.last.from, inst'.last.to} :
                      Appended(j) = 0
                 /\ IF inst'.last.from = inst'.last.to
                      THEN Appended(inst'.last.from) = 2
                      ELSE Appended(inst'.last.from) = 1 /\ Appended(inst'.last.to) = 1]_vars

\* a savings account with a deposit, interest and a withdrawal on record
C35_Witness ==
  /\ target = "Bank"
  /\ \E k \in DOMAIN inst.accounts :
       LET h == inst.accounts[k].transaction_history
       IN /\ Len(h) = 3
          /\ {h[i][1] : i \in 1..3} = {"deposit", "interest", "withdrawal"}
          /\ \A i \in 1..3 : h[i][2] > 0


\* ------------------------------------------------------- lending claims
\* how often book b is in user u's books_borrowed
TimesHeld(lib, u, b) ==
  Cardinality({i \in 1..Len(lib.user[u].books_borrowed) :
                 lib.user[u].books_borrowed[i] = b})

\* C36: in every state a book is unavailable exactly when it has a
\* borrower, an unavailable book is once in its borrower's books_borrowed
\* and in no other user's, an available book is in nobody's, and a book that
\* is unavailable stays unavailable with the same borrower.
C36_LentToOneUser ==
  [][target = "Library" =>
       \A b \in BookObjects :
         /\ ~inst'.book[b].available <=> inst'.book[b].borrower # "None"
         /\ \A u \in UserObjects :
              TimesHeld(inst', u, b) =
                IF inst'.book[b].borrower = u THEN 1 ELSE 0
         /\ ~inst.book[b].available => inst'.book[b] = inst.book[b]]_vars

\* a user holds a book and another registered user's request for it was
\* turned down
C36_Witness ==
  /\ target = "Library"
  /\ inst.last.op = "borrow_book" /\ inst.last.msg = "Book is not available"
  /\ inst.last.user_id = "p2"
  /\ inst.user["u1"].books_borrowed # <<>>
  /\ inst.user["u2"].books_borrowed = <<>>

\* ------------------------------------------- hooks and a raising function
\* the entries of a call's log of one kind ("before", "func", "after")
LogOf(kind, log) == SelectSeq(log, LAMBDA e : e[1] = kind)
\* some hook of the list raises in the call just made
SomeRaises(list) == \E i \in 1..Len(list) : list[i] \in hooks'.last.raisers
\* a before-hook raised in the call just made: no function, no after-hook
BeforeRaiseEndsCall ==
  SomeRaises(hooks.before_hooks)
    => /\ hooks'.last.outcome = "before_hook_raised"
       /\ LogOf("func", hooks'.last.log) = <<>>
       /\ LogOf("after", hooks'.last.log) = <<>>

C38_TimingLoggingTransparent ==
  [][(target = "TimingLoggingChain" /\ inst'.n = inst.n + 1)
      => inst'.last.outcome = inst'.last.inner]_vars

====
